---- MODULE Spec2Model ----
(***************************************************************************)
(* A model of flatpak-indexer's Pyxis datasource: the per-registry polling *)
(* (Registry.find_images), the reconciliation of observed builds into a    *)
(* RegistryModel (Registry._add_build_history), the change-aware snapshot  *)
(* writer (utils.atomic_writer) and the driver (PyxisUpdater.update).      *)
(*                                                                         *)
(* Strings are sequences of tokens; the token "-" is the dash on which an  *)
(* NVR is split.  A date is a natural number (seconds since the epoch).    *)
(***************************************************************************)
EXTENDS Integers, Sequences, FiniteSets, TLC

VARIABLES
    (* Registry (updater.py:22-38) *)
    repositories,   \* self.config.repositories
    page_size,      \* self.page_size
    tag_indexes,    \* self.tag_indexes
    koji_indexes,   \* self.koji_indexes
    registry,       \* self.registry.repositories: name -> RepositoryModel
    (* find_images (updater.py:141-171) *)
    pc,             \* where find_images is: "tag_walk", "koji_walk", "returned", "raised"
    todo,           \* the (repository, tag, architectures) iterations still to run
    ktodo,          \* the (koji_tag, architectures) iterations still to run
    exc,            \* the exception find_images raised, "none" otherwise
    (* history variables: what the run did, for the properties *)
    fetches,        \* every _get_tag_history call: its response and its result
    calls,          \* every _add_build_history call: its arguments and add_image calls
    listed,         \* every listTagged call: its answer and the calls made for it
    (* the catalog, where a run is checked against one catalog *)
    catalog_history,\* the tag history the catalog holds, all pages of it
    (* atomic_writer (utils.py:86-127) and the files it works on *)
    target,         \* the file at output_path
    tmp,            \* the NamedTemporaryFile
    wpc,            \* where atomic_writer is
    payload,        \* what the caller's with-block writes
    clock,          \* the time, as file modification times record it
    writes,         \* the atomic_writer calls made so far
    before,         \* the target as the current call found it
    renames,        \* the os.rename calls of the current call
    fault,          \* the step of the current call that raised, "none" otherwise
    (* PyxisUpdater.update (updater.py:188-205) *)
    conf_indexes,   \* self.conf.indexes
    registries,     \* the local dict registries, in insertion order
    upc,            \* where update is: "indexes", "find", "write", "done", "raised"
    ui,             \* the position of the first loop in conf.indexes
    ur,             \* the position of the second loop in registries
    (* json_model.BaseModel (json_model.py:265-299) *)
    jcls,           \* the model class in use
    jkwargs,        \* the keyword arguments the constructor was given
    jobj,           \* what the constructor gave: an instance or an exception
    jdata,          \* the JSON data: what to_json returned, or what was received
    jback,          \* what from_json gave for jdata: an instance or an exception
    jpc,            \* where the model layer is
    (* Registry._do_iterate_pyxis_results (updater.py:65-83) on its own *)
    cat_listing,    \* the items the catalog holds for the URL
    iter_page,      \* page
    iter_responses, \* the requests sent so far, each with its response_json
    iter_yielded,   \* the items yielded so far
    iter_pc,        \* where the generator is: "iterating", "done"
    (* one GET through the session of get_retrying_requests_session (utils.py:27-38) *)
    sends,          \* the responses to the sends of the request so far
    retry_total,    \* the total the Retry object still has
    session_pc      \* where session.get is: "sending", "returned", "raised"

findVars == <<repositories, page_size, tag_indexes, koji_indexes, registry, pc, todo,
              ktodo, exc, fetches, calls, listed, catalog_history>>

writerVars == <<target, tmp, wpc, payload, clock, writes, before, renames, fault>>

updateVars == <<conf_indexes, registries, upc, ui, ur>>

jsonVars == <<jcls, jkwargs, jobj, jdata, jback, jpc>>

pagingVars == <<cat_listing, iter_page, iter_responses, iter_yielded, iter_pc>>

retryVars == <<sends, retry_total, session_pc>>

\* The variables of the specifications that follow the driver's.
extVars == <<jsonVars, pagingVars, retryVars>>

vars == <<findVars, writerVars, updateVars, extVars>>

----------------------------------------------------------------------------
(* Bounds of the model *)

\* The longest tag history a catalog response holds.
MaxHist == 2
\* The largest page size a registry is given.
MaxPageSize == 3
\* The most atomic_writer calls made on one output path.
MaxWrites == 2
\* The most indexes a configuration lists.
MaxIndexes == 3
\* The most builds listTagged returns for one build-tracking tag.
MaxTagged == 2
\* The most items a list or a dict of a model instance holds.
MaxItems == 2
\* The most items the catalog holds for a paged URL.
MaxTotal == 5

----------------------------------------------------------------------------
(* Helpers *)

Range(s) == {s[i] : i \in DOMAIN s}

NoDuplicates(s) == \A i, j \in DOMAIN s : s[i] = s[j] => i = j

\* All sequences over S of length at most n.
RECURSIVE SeqsUpTo(_, _)
SeqsUpTo(S, n) ==
    IF n = 0 THEN {<<>>}
    ELSE LET shorter == SeqsUpTo(S, n - 1)
         IN shorter \cup {Append(s, x) : s \in shorter, x \in S}

EmptyMap == [x \in {} |-> x]

\* A file: content is what is on disk, buffer what a writer still holds unflushed.
NoFile == [exists |-> FALSE, content |-> <<>>, buffer |-> <<>>, mtime |-> 0, mode |-> 0,
           open |-> FALSE]

\* The parts of the program a specification leaves out, at rest.
FindIdle ==
    /\ repositories = <<>>
    /\ page_size = 50
    /\ tag_indexes = <<>>
    /\ koji_indexes = <<>>
    /\ registry = EmptyMap
    /\ pc = "idle"
    /\ todo = <<>>
    /\ ktodo = <<>>
    /\ exc = "none"
    /\ fetches = <<>>
    /\ calls = <<>>
    /\ listed = <<>>
    /\ catalog_history = <<>>

WriterIdle ==
    /\ target = NoFile
    /\ tmp = NoFile
    /\ wpc = "idle"
    /\ payload = <<>>
    /\ clock = 0
    /\ writes = 0
    /\ before = NoFile
    /\ renames = 0
    /\ fault = "none"

JsonIdle ==
    /\ jcls = ""
    /\ jkwargs = [type |-> "NoneType"]
    /\ jobj = [type |-> "NoneType"]
    /\ jdata = [type |-> "NoneType"]
    /\ jback = [type |-> "NoneType"]
    /\ jpc = "start"

PagingIdle ==
    /\ cat_listing = <<>>
    /\ iter_page = 0
    /\ iter_responses = <<>>
    /\ iter_yielded = <<>>
    /\ iter_pc = "idle"

RetryIdle ==
    /\ sends = <<>>
    /\ retry_total = 0
    /\ session_pc = "idle"

\* The specifications that follow the driver's, at rest.
ExtIdle == JsonIdle /\ PagingIdle /\ RetryIdle

UpdateIdle ==
    /\ conf_indexes = <<>>
    /\ registries = <<>>
    /\ upc = "idle"
    /\ ui = 1
    /\ ur = 1

----------------------------------------------------------------------------
(* The world the registry polls: builds, tags, architectures *)

Dash == "-"

NvrA == <<"app", "-", "1", "-", "1">>
NvrB == <<"my", "-", "app", "-", "2", "-", "1">>
NvrC == <<"base", "-", "3", "-", "1">>

TagLatest == <<"latest">>
TagStable == <<"stable">>
KojiTagRc == <<"release", "-", "candidate">>

\* architecture=None of an index: every architecture
ArchAny == "None"

\* What the build system holds for an NVR (koji_query.query_image_build decodes it
\* into a FlatpakBuildModel or another ImageBuildModel).
BuildDB(nvr) ==
    CASE nvr = NvrA ->
           [nvr |-> NvrA, flatpak |-> TRUE, repository |-> "r1",
            images |-> <<[digest |-> "d1", architecture |-> "amd64", tags |-> <<>>],
                         [digest |-> "d2", architecture |-> "arm64", tags |-> <<>>]>>]
      [] nvr = NvrB ->
           [nvr |-> NvrB, flatpak |-> TRUE, repository |-> "r1",
            images |-> <<[digest |-> "d3", architecture |-> "amd64", tags |-> <<>>]>>]
      [] OTHER ->
           [nvr |-> NvrC, flatpak |-> FALSE, repository |-> "r2",
            images |-> <<[digest |-> "d4", architecture |-> "amd64", tags |-> <<>>]>>]

\* query_image_build: the descriptor of nvr, decoded anew on every call, so every
\* call returns a new object; oid is the object's identity.
query_image_build(nvr, oid) ==
    [oid |-> oid] @@ BuildDB(nvr)

\* The catalog's start_date strings and utils.parse_date.
IsoDate(n) == [iso |-> n]
parse_date(s) == s.iso

----------------------------------------------------------------------------
(* Registry.add_index, updater.py:40-44 *)

IndexConfig(tag, koji_tag, architecture) ==
    [tag |-> tag, koji_tag |-> koji_tag, architecture |-> architecture]

\* bool(index_config.koji_tag): None and "" are false
Truthy(s) == s # <<>>

\* (mutant) line 41 dropped: every index appended to tag_indexes
add_index_TagOnly(reg, index_config) ==
    [reg EXCEPT !.tag_indexes = Append(@, index_config)]

add_index(reg, index_config) ==
    IF Truthy(index_config.koji_tag)
    THEN [reg EXCEPT !.koji_indexes = Append(@, index_config)]
    ELSE [reg EXCEPT !.tag_indexes = Append(@, index_config)]

RECURSIVE AddIndexes(_, _)
AddIndexes(reg, indexes) ==
    IF indexes = <<>> THEN reg
    ELSE AddIndexes(add_index(reg, Head(indexes)), Tail(indexes))

----------------------------------------------------------------------------
(* RegistryModel.add_image: create the repository on first use, then insert *)
(* the image by digest or merge its tags into the image already there.      *)

RECURSIVE UnionTags(_, _)
UnionTags(old, new) ==
    IF new = <<>> THEN old
    ELSE UnionTags(IF Head(new) \in Range(old) THEN old ELSE Append(old, Head(new)),
                   Tail(new))

RepositoryModel(name) ==
    [name |-> name, images |-> EmptyMap, tag_histories |-> EmptyMap]

add_image(repos, name, image) ==
    LET repos1 == IF name \in DOMAIN repos THEN repos
                  ELSE (name :> RepositoryModel(name)) @@ repos
        images == repos1[name].images
        merged == IF image.digest \in DOMAIN images
                  THEN [images[image.digest] EXCEPT
                            !.tags = UnionTags(@, image.tags)]
                  ELSE image
    IN [repos1 EXCEPT ![name].images = (image.digest :> merged) @@ @]

----------------------------------------------------------------------------
(* Registry._add_build_history, updater.py:117-139 *)

\* str.rsplit(sep, maxsplit)
LastIndexOf(s, sep) ==
    LET I == {i \in 1..Len(s) : s[i] = sep}
    IN IF I = {} THEN 0 ELSE CHOOSE i \in I : \A k \in I : k <= i

RECURSIVE rsplit(_, _, _)
rsplit(s, sep, maxsplit) ==
    LET i == LastIndexOf(s, sep)
    IN IF maxsplit = 0 \/ i = 0 THEN <<s>>
       ELSE Append(rsplit(SubSeq(s, 1, i - 1), sep, maxsplit - 1),
                   SubSeq(s, i + 1, Len(s)))

\* (mutant) the filter without the any-architecture sentinel
ArchitectureMatches_NoAny(architectures, image) ==
    image.architecture \in architectures

\* line 124
ArchitectureMatches(architectures, image) ==
    ArchAny \in architectures \/ image.architecture \in architectures

\* line 128: build == build_items[0][0]; models have no __eq__, so this is identity
IsFirstBuild(build, build_items) ==
    build.oid = build_items[1].build.oid

\* (mutant) the bare tag appended for every build, not only the first
ImageTags_AlwaysBare(build, tag, build_items) ==
    LET nvr == rsplit(build.nvr, Dash, 2)
    IN <<nvr[2], nvr[2] \o <<Dash>> \o nvr[3], tag>>

\* lines 121, 127-129
ImageTags(build, tag, build_items) ==
    LET nvr == rsplit(build.nvr, Dash, 2)
        v == nvr[2]
        r == nvr[3]
    IN <<v, v \o <<Dash>> \o r>>
       \o (IF IsFirstBuild(build, build_items) THEN <<tag>> ELSE <<>>)

\* The (build, image) pairs in the order the two loops visit them.
RECURSIVE VisitOrder(_, _)
VisitOrder(build_items, i) ==
    IF i > Len(build_items) THEN <<>>
    ELSE [k \in 1..Len(build_items[i].build.images) |->
              [pos |-> i, image |-> build_items[i].build.images[k]]]
         \o VisitOrder(build_items, i + 1)

\* (mutant) line 131 storing the image under its digest instead of merging it
VisitImage_Overwrite(acc, repository, tag, architectures, build_items, visit) ==
    LET build == build_items[visit.pos].build
        start_date == build_items[visit.pos].date
    IN IF ~ArchitectureMatches(architectures, visit.image) THEN acc
       ELSE LET image == [visit.image EXCEPT
                              !.tags = ImageTags(build, tag, build_items)]
                item == [architecture |-> image.architecture,
                         date |-> start_date,
                         digest |-> image.digest]
                repos1 == IF repository \in DOMAIN acc.registry THEN acc.registry
                          ELSE (repository :> RepositoryModel(repository))
                               @@ acc.registry
            IN [registry |-> [repos1 EXCEPT ![repository].images =
                                  (image.digest :> image) @@ @],
                items |-> Append(acc.items, item),
                added |-> Append(acc.added, [pos |-> visit.pos, image |-> image])]

\* (mutant) the repository made before the architecture test of line 124
VisitImage_EagerRepository(acc, repository, tag, architectures, build_items, visit) ==
    LET build == build_items[visit.pos].build
        start_date == build_items[visit.pos].date
        repos1 == IF repository \in DOMAIN acc.registry THEN acc.registry
                  ELSE (repository :> RepositoryModel(repository)) @@ acc.registry
    IN IF ~ArchitectureMatches(architectures, visit.image)
       THEN [acc EXCEPT !.registry = repos1]
       ELSE LET image == [visit.image EXCEPT
                              !.tags = ImageTags(build, tag, build_items)]
                item == [architecture |-> image.architecture,
                         date |-> start_date,
                         digest |-> image.digest]
            IN [registry |-> add_image(repos1, repository, image),
                items |-> Append(acc.items, item),
                added |-> Append(acc.added, [pos |-> visit.pos, image |-> image])]

\* lines 123-136, one image
VisitImage(acc, repository, tag, architectures, build_items, visit) ==
    LET build == build_items[visit.pos].build
        start_date == build_items[visit.pos].date
    IN IF ~ArchitectureMatches(architectures, visit.image) THEN acc
       ELSE LET image == [visit.image EXCEPT
                              !.tags = ImageTags(build, tag, build_items)]
                item == [architecture |-> image.architecture,
                         date |-> start_date,
                         digest |-> image.digest]
            IN [registry |-> add_image(acc.registry, repository, image),
                items |-> Append(acc.items, item),
                added |-> Append(acc.added, [pos |-> visit.pos, image |-> image])]

RECURSIVE VisitImages(_, _, _, _, _, _)
VisitImages(acc, repository, tag, architectures, build_items, visits) ==
    IF visits = <<>> THEN acc
    ELSE VisitImages(VisitImage(acc, repository, tag, architectures, build_items,
                                Head(visits)),
                     repository, tag, architectures, build_items, Tail(visits))

TagHistoryModel(name, items) == [name |-> name, items |-> items]

\* (mutant) line 138 dropped: the history attached even when it is empty
add_build_history_Unguarded(repos, repository, tag, architectures, build_items) ==
    LET acc == VisitImages([registry |-> repos, items |-> <<>>, added |-> <<>>],
                           repository, tag, architectures, build_items,
                           VisitOrder(build_items, 1))
    IN [registry |->
            IF repository \in DOMAIN acc.registry
            THEN [acc.registry EXCEPT ![repository].tag_histories =
                      (tag :> TagHistoryModel(tag, acc.items)) @@ @]
            ELSE acc.registry,
        added |-> acc.added]

\* The whole call: the registry after it, and what it passed to add_image.
add_build_history(repos, repository, tag, architectures, build_items) ==
    LET acc == VisitImages([registry |-> repos, items |-> <<>>, added |-> <<>>],
                           repository, tag, architectures, build_items,
                           VisitOrder(build_items, 1))
    IN [registry |->
            IF Len(acc.items) > 0
            THEN [acc.registry EXCEPT ![repository].tag_histories =
                      (tag :> TagHistoryModel(tag, acc.items)) @@ @]
            ELSE acc.registry,
        added |-> acc.added]

\* The record kept of one _add_build_history call.
CallRecord(walk, repository, tag, architectures, build_items, added) ==
    [walk |-> walk, repository |-> repository, tag |-> tag,
     architectures |-> architectures, build_items |-> build_items, added |-> added]

----------------------------------------------------------------------------
(* The catalog (Pyxis) as the registry sees it through its session *)

RegistryName == "registry.example.com"

\* What session.get ends in: a response, or the exception the retrying adapter
\* raises when a transient status outlasts its retries.
Response(status, json) == [exc |-> "none", status |-> status, json |-> json]
SessionRaises(e) == [exc |-> e, status |-> 0, json |-> <<>>]

\* One entry of a tag history document.
HistoryEntry(nvr, n) == [brew_build |-> nvr, start_date |-> IsoDate(n)]

\* The tag histories a response may hold: newest first, dates descending.
Histories ==
    {[i \in 1..Len(h) |-> HistoryEntry(h[i], 10 * (Len(h) - i + 1))] :
        h \in SeqsUpTo({NvrA, NvrB}, MaxHist)}

TagHistoryDocument(history) ==
    [history |-> history, total |-> Len(history)]

\* Every outcome of a tag-history request: found, not found, refused, retries spent.
TagHistoryOutcomes ==
    {Response(200, TagHistoryDocument(h)) : h \in Histories}
    \cup {Response(404, <<>>), Response(403, <<>>), SessionRaises("RetryError")}

\* The repositories the catalog lists (GET repositories?image_usage_type=Flatpak).
CatalogRepositories ==
    <<[registry |-> RegistryName, repository |-> "r1"],
      [registry |-> "other.example.com", repository |-> "rx"],
      [registry |-> RegistryName, repository |-> "r2"]>>

Min(a, b) == IF a < b THEN a ELSE b

\* The catalog's answer to a paged request over a listing.
CatalogPage(listing, size, page) ==
    [data |-> SubSeq(listing, size * page + 1,
                     Min(Len(listing), size * (page + 1))),
     total |-> Len(listing)]

PagedQuery(size, page) ==
    <<[key |-> "page_size", value |-> size], [key |-> "page", value |-> page]>>

----------------------------------------------------------------------------
(* Registry._get_pyxis_url, updater.py:46-63 *)

Returns(value) == [raised |-> "none", status |-> 0, value |-> value]
Raises(e, status) == [raised |-> e, status |-> status, value |-> <<>>]

get_pyxis_url(outcome) ==
    IF outcome.exc # "none" THEN Raises(outcome.exc, 0)            \* line 60
    ELSE IF outcome.status >= 400 THEN Raises("HTTPError", outcome.status)  \* line 61
    ELSE Returns(outcome.json)                                     \* line 63

----------------------------------------------------------------------------
(* Registry._do_iterate_pyxis_results, updater.py:65-83, over a catalog that *)
(* answers every page                                                        *)

RECURSIVE do_iterate_pyxis_results(_, _, _)
do_iterate_pyxis_results(listing, size, page) ==
    LET response_json == get_pyxis_url(
                             Response(200, CatalogPage(listing, size, page))).value
    IN response_json.data
       \o (IF response_json.total <= size * page + Len(response_json.data)
           THEN <<>>
           ELSE do_iterate_pyxis_results(listing, size, page + 1))

\* Registry._iterate_repositories, updater.py:98-108
RECURSIVE OfRegistry(_, _)
OfRegistry(items, name) ==
    IF items = <<>> THEN <<>>
    ELSE (IF Head(items).registry = name THEN <<Head(items).repository>> ELSE <<>>)
         \o OfRegistry(Tail(items), name)

iterate_repositories(config_repositories, size) ==
    IF config_repositories # <<>> THEN config_repositories
    ELSE OfRegistry(do_iterate_pyxis_results(CatalogRepositories, size, 0),
                    RegistryName)

----------------------------------------------------------------------------
(* Registry._get_tag_history, updater.py:85-96 *)

\* The request the method sends (lines 86-87, 90): the bare tag-history URL.
TagHistoryRequest(repository, tag) ==
    [endpoint |-> "tag-history", registry |-> RegistryName,
     repository |-> repository, tag |-> tag, query |-> <<>>]

\* (mutant) line 92 dropped: a 404 treated like every other HTTP error
get_tag_history_No404(outcome) ==
    LET got == get_pyxis_url(outcome)
    IN IF got.raised = "HTTPError" THEN Raises("UnboundLocalError", 0)
       ELSE IF got.raised # "none" THEN got
       ELSE Returns([i \in 1..Len(got.value.history) |->
                        [nvr |-> got.value.history[i].brew_build,
                         date |-> parse_date(got.value.history[i].start_date)]])

\* (mutant) line 93 outside the test of line 92: every HTTP error an empty history
get_tag_history_AnyError(outcome) ==
    LET got == get_pyxis_url(outcome)
    IN IF got.raised = "HTTPError" THEN Returns(<<>>)
       ELSE IF got.raised # "none" THEN got
       ELSE Returns([i \in 1..Len(got.value.history) |->
                        [nvr |-> got.value.history[i].brew_build,
                         date |-> parse_date(got.value.history[i].start_date)]])

get_tag_history(outcome) ==
    LET got == get_pyxis_url(outcome)
    IN IF got.raised = "HTTPError"
       THEN IF got.status = 404
            THEN Returns(<<>>)                          \* line 93
            ELSE Raises("UnboundLocalError", 0)         \* line 96: tag_history unbound
       ELSE IF got.raised # "none"
       THEN got                                         \* not caught by line 91
       ELSE Returns([i \in 1..Len(got.value.history) |->
                        [nvr |-> got.value.history[i].brew_build,
                         date |-> parse_date(got.value.history[i].start_date)]])

----------------------------------------------------------------------------
(* Registry._iterate_flatpak_builds, updater.py:110-115 *)

\* What koji_session.listTagged(koji_tag, type='image', latest=True) may return:
\* the latest build of each package, so no NVR twice.
TaggedLists ==
    {t \in SeqsUpTo({NvrA, NvrB, NvrC}, MaxTagged) : NoDuplicates(t)}

\* (mutant) line 114 dropped: every build of the tag is yielded
RECURSIVE iterate_flatpak_builds_All(_, _)
iterate_flatpak_builds_All(tagged_builds, oid) ==
    IF tagged_builds = <<>> THEN <<>>
    ELSE <<query_image_build(Head(tagged_builds), oid)>>
         \o iterate_flatpak_builds_All(Tail(tagged_builds), oid + 1)

RECURSIVE iterate_flatpak_builds(_, _)
iterate_flatpak_builds(tagged_builds, oid) ==
    IF tagged_builds = <<>> THEN <<>>
    ELSE LET build == query_image_build(Head(tagged_builds), oid)
         IN (IF build.flatpak THEN <<build>> ELSE <<>>)
            \o iterate_flatpak_builds(Tail(tagged_builds), oid + 1)

----------------------------------------------------------------------------
(* Registry.find_images, updater.py:141-171 *)

\* lines 142-144 and 160-162: a defaultdict(set), in insertion order
RECURSIVE Desired(_, _, _)
Desired(indexes, key, acc) ==
    IF indexes = <<>> THEN acc
    ELSE LET t == Head(indexes)[key]
             a == Head(indexes).architecture
             I == {i \in DOMAIN acc : acc[i].tag = t}
         IN Desired(Tail(indexes), key,
                    IF I = {} THEN Append(acc, [tag |-> t, architectures |-> {a}])
                    ELSE [i \in DOMAIN acc |->
                             IF i \in I
                             THEN [acc[i] EXCEPT !.architectures = @ \cup {a}]
                             ELSE acc[i]])

\* lines 146-148: the iterations of the two nested loops, in order
RECURSIVE TagWalkUnits(_, _)
TagWalkUnits(repos, desired_tags) ==
    IF repos = <<>> THEN <<>>
    ELSE [j \in 1..Len(desired_tags) |->
             [repository |-> Head(repos), tag |-> desired_tags[j].tag,
              architectures |-> desired_tags[j].architectures]]
         \o TagWalkUnits(Tail(repos), desired_tags)

\* line 165
koji_tag_start_date == 0

\* Where find_images goes on: the tag walk, then the build-tag walk, then it returns.
Onward(todo1, ktodo1) ==
    IF todo1 # <<>> THEN "tag_walk"
    ELSE IF ktodo1 # <<>> THEN "koji_walk"
    ELSE "returned"

FetchRecord(unit, outcome, got, lookups) ==
    [repository |-> unit.repository, tag |-> unit.tag,
     requests |-> <<TagHistoryRequest(unit.repository, unit.tag)>>,
     outcome |-> outcome, result |-> got, lookups |-> lookups]

\* lines 153-156
BuildItems(history_items) ==
    [i \in 1..Len(history_items) |->
        [build |-> query_image_build(history_items[i].nvr, i),
         date |-> history_items[i].date]]

\* One iteration of the loop of lines 148-158.
TagWalkStep ==
    /\ pc = "tag_walk"
    /\ todo # <<>>
    /\ \E outcome \in TagHistoryOutcomes :
         LET unit == Head(todo)
             got == get_tag_history(outcome)
         IN IF got.raised # "none"
            THEN /\ pc' = "raised"
                 /\ exc' = got.raised
                 /\ fetches' = Append(fetches, FetchRecord(unit, outcome, got, 0))
                 /\ UNCHANGED <<registry, todo, calls>>
            ELSE IF Len(got.value) = 0
            THEN /\ pc' = Onward(Tail(todo), ktodo)                 \* line 151
                 /\ todo' = Tail(todo)
                 /\ fetches' = Append(fetches, FetchRecord(unit, outcome, got, 0))
                 /\ UNCHANGED <<registry, exc, calls>>
            ELSE LET build_items == BuildItems(got.value)
                     done == add_build_history(registry, unit.repository, unit.tag,
                                               unit.architectures, build_items)
                 IN /\ registry' = done.registry
                    /\ pc' = Onward(Tail(todo), ktodo)
                    /\ todo' = Tail(todo)
                    /\ fetches' = Append(fetches,
                                         FetchRecord(unit, outcome, got, Len(build_items)))
                    /\ calls' = Append(calls,
                                       CallRecord(Len(fetches) + 1, unit.repository,
                                                  unit.tag, unit.architectures,
                                                  build_items, done.added))
                    /\ UNCHANGED exc
    /\ UNCHANGED <<repositories, page_size, tag_indexes, koji_indexes, ktodo, listed,
                   catalog_history, writerVars, updateVars, extVars>>

\* lines 168-171: one _add_build_history call for each build of the tag
RECURSIVE KojiWalkBuilds(_, _, _, _)
KojiWalkBuilds(acc, koji_tag, architectures, builds) ==
    IF builds = <<>> THEN acc
    ELSE LET build == Head(builds)
             build_items == <<[build |-> build, date |-> koji_tag_start_date]>>
             done == add_build_history(acc.registry, build.repository, koji_tag,
                                       architectures, build_items)
         IN KojiWalkBuilds([registry |-> done.registry,
                            calls |-> Append(acc.calls,
                                             CallRecord(0, build.repository, koji_tag,
                                                        architectures, build_items,
                                                        done.added))],
                           koji_tag, architectures, Tail(builds))

\* The record kept of one listTagged call: what it returned, and where in calls
\* the _add_build_history calls made for it are.
ListRecord(koji_tag, tagged_builds, from, to) ==
    [koji_tag |-> koji_tag, tagged_builds |-> tagged_builds, from |-> from, to |-> to]

\* One iteration of the loop of lines 167-171.
KojiWalkStep ==
    /\ pc = "koji_walk"
    /\ ktodo # <<>>
    /\ \E tagged_builds \in TaggedLists :
         LET unit == Head(ktodo)
             done == KojiWalkBuilds([registry |-> registry, calls |-> calls],
                                    unit.tag, unit.architectures,
                                    iterate_flatpak_builds(tagged_builds, 1))
         IN /\ registry' = done.registry
            /\ calls' = done.calls
            /\ listed' = Append(listed, ListRecord(unit.tag, tagged_builds, Len(calls),
                                                   Len(done.calls)))
    /\ ktodo' = Tail(ktodo)
    /\ pc' = Onward(todo, Tail(ktodo))
    /\ UNCHANGED <<repositories, page_size, tag_indexes, koji_indexes, todo, exc,
                   fetches, catalog_history, writerVars, updateVars, extVars>>

----------------------------------------------------------------------------
(* The registries polled: their repositories, page size and indexes *)

TagIndex(tag, architecture) == IndexConfig(tag, <<>>, architecture)
KojiIndex(koji_tag, architecture) == IndexConfig(<<>>, koji_tag, architecture)

Config(config_repositories, size, indexes) ==
    [repositories |-> config_repositories, page_size |-> size, indexes |-> indexes]

Configs ==
    { Config(<<"r1", "r2">>, 50, <<TagIndex(TagLatest, "amd64")>>),
      Config(<<"r1">>, 50, <<TagIndex(TagLatest, "amd64"), TagIndex(TagLatest, ArchAny)>>),
      Config(<<"r1">>, 50, <<TagIndex(TagLatest, "amd64"), TagIndex(TagStable, "arm64")>>),
      Config(<<>>, 1, <<TagIndex(TagLatest, "amd64"), KojiIndex(KojiTagRc, "amd64")>>),
      Config(<<>>, 2, <<KojiIndex(KojiTagRc, ArchAny)>>),
      Config(<<"r1">>, 50, <<KojiIndex(KojiTagRc, "arm64"), TagIndex(TagStable, ArchAny)>>) }

NewRegistry == [tag_indexes |-> <<>>, koji_indexes |-> <<>>]

\* The Registry as update() leaves it before find_images (lines 195-201), and
\* find_images at its first iteration.
Init ==
    /\ WriterIdle
    /\ UpdateIdle
    /\ ExtIdle
    /\ \E config \in Configs :
        LET reg == AddIndexes(NewRegistry, config.indexes)
            desired_tags == Desired(reg.tag_indexes, "tag", <<>>)
            desired_koji_tags == Desired(reg.koji_indexes, "koji_tag", <<>>)
            units == IF Len(desired_tags) > 0
                     THEN TagWalkUnits(iterate_repositories(config.repositories,
                                                            config.page_size),
                                       desired_tags)
                     ELSE <<>>
        IN /\ repositories = config.repositories
           /\ page_size = config.page_size
           /\ tag_indexes = reg.tag_indexes
           /\ koji_indexes = reg.koji_indexes
           /\ registry = EmptyMap
           /\ todo = units
           /\ ktodo = desired_koji_tags
           /\ pc = Onward(units, desired_koji_tags)
           /\ exc = "none"
           /\ fetches = <<>>
           /\ calls = <<>>
           /\ listed = <<>>
           /\ catalog_history = <<>>

\* Registry.find_images on one registry
Next == TagWalkStep \/ KojiWalkStep

Spec == Init /\ [][Next]_vars

----------------------------------------------------------------------------
(* What the properties speak of *)

\* The (version, release) an NVR name-version-release ends in.
NvrSplits(nvr) ==
    {[v |-> SubSeq(nvr, i + 1, j - 1), r |-> SubSeq(nvr, j + 1, Len(nvr))] :
        <<i, j>> \in {p \in (1..Len(nvr)) \X (1..Len(nvr)) :
                        /\ p[1] < p[2]
                        /\ nvr[p[1]] = Dash
                        /\ nvr[p[2]] = Dash
                        /\ \A k \in (p[1] + 1)..Len(nvr) : k # p[2] => nvr[k] # Dash}}

VersionTags(nvr) ==
    UNION {{s.v, s.v \o <<Dash>> \o s.r} : s \in NvrSplits(nvr)}

\* The images of a call's observations that its architecture set asks for.
Wanted(c, i) ==
    {k \in 1..Len(c.build_items[i].build.images) :
        LET a == c.build_items[i].build.images[k].architecture
        IN a \in c.architectures \/ ArchAny \in c.architectures}

\* The (position, digest) pairs a call should hand on, in observation order.
RECURSIVE WantedFrom(_, _, _)
WantedFrom(c, i, k) ==
    IF i > Len(c.build_items) THEN <<>>
    ELSE IF k > Len(c.build_items[i].build.images) THEN WantedFrom(c, i + 1, 1)
    ELSE (IF k \in Wanted(c, i)
          THEN <<[pos |-> i, digest |-> c.build_items[i].build.images[k].digest,
                  architecture |-> c.build_items[i].build.images[k].architecture,
                  date |-> c.build_items[i].date]>>
          ELSE <<>>)
         \o WantedFrom(c, i, k + 1)

\* The tags observation i of call c gives an image.
ObservedTags(c, i) ==
    VersionTags(c.build_items[i].build.nvr) \cup (IF i = 1 THEN {c.tag} ELSE {})

\* The units find_images has to walk for the registry's configuration.
AllUnits ==
    LET desired_tags == Desired(tag_indexes, "tag", <<>>)
    IN IF Len(desired_tags) > 0
       THEN TagWalkUnits(iterate_repositories(repositories, page_size), desired_tags)
       ELSE <<>>

----------------------------------------------------------------------------
(* C1: in every _add_build_history call, every image the architecture set asks *)
(* for is handed to add_image with the tags version and version-release of its *)
(* own build's NVR, and with the bare tag if and only if its observation is   *)
(* the one at position 0 of the list.                                         *)
C1_BareTagOnlyFirst ==
    \A n \in DOMAIN calls :
        LET c == calls[n]
        IN /\ \A i \in DOMAIN c.build_items : \A k \in Wanted(c, i) :
                \E a \in Range(c.added) :
                    /\ a.pos = i
                    /\ a.image.digest = c.build_items[i].build.images[k].digest
           /\ \A a \in Range(c.added) :
                LET tags == a.image.tags
                IN /\ Len(tags) >= 2
                   /\ \E s \in NvrSplits(c.build_items[a.pos].build.nvr) :
                        /\ tags[1] = s.v
                        /\ tags[2] = s.v \o <<Dash>> \o s.r
                   /\ (c.tag \in Range(tags)) <=> (a.pos = 1)
                   /\ Len(tags) = IF a.pos = 1 THEN 3 ELSE 2

\* A history that names the same build twice: its older observation has matching
\* images, and so has the newest.
C1_Witness ==
    \E n \in DOMAIN calls :
        LET c == calls[n]
        IN /\ Len(c.build_items) >= 2
           /\ c.build_items[1].build.nvr = c.build_items[2].build.nvr
           /\ \E a, b \in Range(c.added) : a.pos = 1 /\ b.pos = 2

(* C2: every repository holds one ImageModel per observed digest, under that *)
(* digest, and its tag list is the duplicate-free union of the tags of every *)
(* observation of that digest, whichever walk made it.                       *)
C2_OneImagePerDigest ==
    LET Observations(repo) ==
            UNION {UNION {{<<n, i, k>> : k \in Wanted(calls[n], i)} :
                             i \in DOMAIN calls[n].build_items} :
                      n \in {m \in DOMAIN calls : calls[m].repository = repo}}
        DigestOf(o) == calls[o[1]].build_items[o[2]].build.images[o[3]].digest
        Repos == {calls[n].repository : n \in {m \in DOMAIN calls :
                                                 calls[m].added # <<>>}}
    IN /\ DOMAIN registry = Repos
       /\ \A repo \in DOMAIN registry :
            /\ registry[repo].name = repo
            /\ DOMAIN registry[repo].images
                   = {DigestOf(o) : o \in Observations(repo)}
            /\ \A d \in DOMAIN registry[repo].images :
                 LET image == registry[repo].images[d]
                 IN /\ image.digest = d
                    /\ NoDuplicates(image.tags)
                    /\ Range(image.tags)
                         = UNION {ObservedTags(calls[o[1]], o[2]) :
                                     o \in {x \in Observations(repo) : DigestOf(x) = d}}

\* One digest seen by the tag-history walk and by the build-tag walk, and seen
\* twice under one tag.
C2_Witness ==
    \E repo \in DOMAIN registry : \E d \in DOMAIN registry[repo].images :
        /\ TagLatest \in Range(registry[repo].images[d].tags)
        /\ KojiTagRc \in Range(registry[repo].images[d].tags)
        /\ \E n \in DOMAIN calls :
             /\ calls[n].walk > 0
             /\ Cardinality({a \in DOMAIN calls[n].added :
                                calls[n].added[a].image.digest = d}) >= 1

(* C3: a call hands an image to the model, and gives it a tag-history item, *)
(* if and only if its architecture is in the call's architecture set or the *)
(* set holds the any-architecture sentinel.                                 *)
C3_ArchitectureFilter ==
    \A n \in DOMAIN calls :
        LET c == calls[n]
            wanted == WantedFrom(c, 1, 1)
            later == {m \in DOMAIN calls :
                        /\ m > n
                        /\ calls[m].repository = c.repository
                        /\ calls[m].tag = c.tag
                        /\ calls[m].added # <<>>}
        IN /\ Len(c.added) = Len(wanted)
           /\ \A x \in DOMAIN wanted :
                /\ c.added[x].pos = wanted[x].pos
                /\ c.added[x].image.digest = wanted[x].digest
                /\ wanted[x].digest \in DOMAIN registry[c.repository].images
           /\ (wanted # <<>> /\ later = {}) =>
                /\ c.tag \in DOMAIN registry[c.repository].tag_histories
                /\ registry[c.repository].tag_histories[c.tag].items
                     = [x \in DOMAIN wanted |->
                           [architecture |-> wanted[x].architecture,
                            date |-> wanted[x].date,
                            digest |-> wanted[x].digest]]
           /\ (wanted = <<>> /\ c.repository \in DOMAIN registry) =>
                \A i \in DOMAIN c.build_items :
                  \A k \in DOMAIN c.build_items[i].build.images :
                    LET d == c.build_items[i].build.images[k].digest
                    IN d \in DOMAIN registry[c.repository].images =>
                         \E m \in DOMAIN calls : \E a \in Range(calls[m].added) :
                             /\ calls[m].repository = c.repository
                             /\ a.image.digest = d

\* A build with an amd64 and an arm64 image under an index asking for one of the
\* two only, and one under an index asking for any architecture.
C3_Witness ==
    /\ \E n \in DOMAIN calls :
         LET c == calls[n]
         IN /\ ArchAny \notin c.architectures
            /\ \E i \in DOMAIN c.build_items :
                 /\ c.build_items[i].build.nvr = NvrA
                 /\ Cardinality({x \in DOMAIN c.added : c.added[x].pos = i}) = 1
    /\ \E n \in DOMAIN calls :
         /\ ArchAny \in calls[n].architectures
         /\ \E a \in Range(calls[n].added) : a.image.architecture = "arm64"

(* C4: every tag history stored in a repository has at least one item and is *)
(* stored under its own tag name.                                            *)
C4_TagHistoriesNonEmpty ==
    \A repo \in DOMAIN registry :
        \A t \in DOMAIN registry[repo].tag_histories :
            /\ Len(registry[repo].tag_histories[t].items) >= 1
            /\ registry[repo].tag_histories[t].name = t

\* A call in which no image survived the filter, into a repository that exists
\* and has another tag's history.
C4_Witness ==
    \E n \in DOMAIN calls :
        LET c == calls[n]
        IN /\ c.added = <<>>
           /\ c.repository \in DOMAIN registry
           /\ registry[c.repository].tag_histories # EmptyMap
           /\ c.tag \notin DOMAIN registry[c.repository].tag_histories

(* C5: a 404 answer to a tag-history request makes _get_tag_history return *)
(* the empty list; no build is looked up and no tag history made for that  *)
(* tag, and find_images goes on with the next tag or repository.           *)
C5_NotFoundIsEmpty ==
    /\ \A k \in DOMAIN fetches :
         (fetches[k].outcome.exc = "none" /\ fetches[k].outcome.status = 404) =>
            /\ fetches[k].result = Returns(<<>>)
            /\ fetches[k].lookups = 0
            /\ \A n \in DOMAIN calls : calls[n].walk # k
            /\ fetches[k].repository \in DOMAIN registry =>
                 fetches[k].tag
                    \notin DOMAIN registry[fetches[k].repository].tag_histories
            /\ k = Len(fetches) => (pc # "raised" /\ exc = "none")
    /\ pc # "raised" =>
         /\ Len(fetches) + Len(todo) = Len(AllUnits)
         /\ \A k \in DOMAIN fetches :
              /\ fetches[k].repository = AllUnits[k].repository
              /\ fetches[k].tag = AllUnits[k].tag

\* The walk went on after a 404: the next tag or repository was fetched and its
\* builds were folded.
C5_Witness ==
    \E k \in DOMAIN fetches :
        /\ fetches[k].outcome.status = 404
        /\ k + 1 \in DOMAIN fetches
        /\ \E n \in DOMAIN calls : calls[n].walk = k + 1 /\ calls[n].added # <<>>

(* C6: an HTTP error other than 404 on a tag-history request is fatal:      *)
(* _get_tag_history returns nothing, find_images raises, and nothing more   *)
(* of the registry's run happens.                                           *)
C6_OtherHttpErrorFatal ==
    \A k \in DOMAIN fetches :
        (/\ fetches[k].outcome.exc = "none"
         /\ fetches[k].outcome.status >= 400
         /\ fetches[k].outcome.status # 404) =>
            /\ fetches[k].result.raised # "none"
            /\ fetches[k].lookups = 0
            /\ k = Len(fetches)
            /\ pc = "raised"
            /\ exc = fetches[k].result.raised
            /\ \A n \in DOMAIN calls : calls[n].walk \notin {0, k}
            /\ ~ENABLED Next

\* The error struck with a repository already reconciled and the build-tag walk
\* still to come.
C6_Witness ==
    /\ pc = "raised"
    /\ fetches[Len(fetches)].outcome.status = 403
    /\ registry # EmptyMap
    /\ ktodo # <<>> \/ Len(todo) > 1

----------------------------------------------------------------------------
(* One tag history fetched from a catalog that pages its answers *)

\* The value a query carries under a key, the default when it carries none.
QueryValue(query, key, default) ==
    LET I == {i \in DOMAIN query : query[i].key = key}
    IN IF I = {} THEN default ELSE query[CHOOSE i \in I : TRUE].value

\* The catalog's answer to a tag-history request: the page asked for, the first
\* page when the request names none.
CatalogTagHistory(request, history, size) ==
    LET psize == QueryValue(request.query, "page_size", size)
        page == QueryValue(request.query, "page", 0)
    IN Response(200, [history |-> SubSeq(history, psize * page + 1,
                                         Min(Len(history), psize * (page + 1))),
                      total |-> Len(history)])

\* A catalog whose history for the tag has 2 * page_size + 1 entries: three pages.
InitTagHistory ==
    /\ WriterIdle
    /\ UpdateIdle
    /\ ExtIdle
    /\ page_size \in 1..MaxPageSize
    /\ \E h \in SeqsUpTo({NvrA, NvrB}, 2 * MaxPageSize + 1) :
         /\ Len(h) = 2 * page_size + 1
         /\ catalog_history = [i \in 1..Len(h) |-> HistoryEntry(h[i], 10 * (Len(h) - i + 1))]
    /\ repositories = <<"r1">>
    /\ tag_indexes = <<TagIndex(TagLatest, ArchAny)>>
    /\ koji_indexes = <<>>
    /\ registry = EmptyMap
    /\ pc = "fetch"
    /\ todo = <<[repository |-> "r1", tag |-> TagLatest, architectures |-> {ArchAny}]>>
    /\ ktodo = <<>>
    /\ exc = "none"
    /\ fetches = <<>>
    /\ calls = <<>>
    /\ listed = <<>>

\* line 149: history_items = self._get_tag_history(repository, tag)
FetchTagHistory ==
    /\ pc = "fetch"
    /\ LET unit == Head(todo)
           request == TagHistoryRequest(unit.repository, unit.tag)
           outcome == CatalogTagHistory(request, catalog_history, page_size)
           got == get_tag_history(outcome)
       IN fetches' = Append(fetches, FetchRecord(unit, outcome, got, 0))
    /\ pc' = "fetched"
    /\ UNCHANGED <<repositories, page_size, tag_indexes, koji_indexes, registry, todo,
                   ktodo, exc, calls, listed, catalog_history, writerVars, updateVars,
                   extVars>>

NextTagHistory == FetchTagHistory

SpecTagHistory == InitTagHistory /\ [][NextTagHistory]_vars

(* C7: for a tag whose history the catalog holds as 2 * page_size + 1 entries *)
(* on three pages, fetching the history sends exactly 3 requests, each with   *)
(* an explicit page_size and page, and returns every entry, in order.         *)
C7_TagHistoryPaged ==
    \A k \in DOMAIN fetches :
        Len(catalog_history) = 2 * page_size + 1 =>
            /\ Len(fetches[k].requests) = 3
            /\ \A q \in DOMAIN fetches[k].requests :
                 /\ QueryValue(fetches[k].requests[q].query, "page_size", 0) = page_size
                 /\ QueryValue(fetches[k].requests[q].query, "page", -1) = q - 1
            /\ fetches[k].result
                 = Returns([i \in 1..Len(catalog_history) |->
                              [nvr |-> catalog_history[i].brew_build,
                               date |-> parse_date(catalog_history[i].start_date)]])

\* The tag-history items the calls 1..n for a repository and tag ask for, in
\* observation order.
RECURSIVE ObservedItems(_, _, _)
ObservedItems(repository, tag, n) ==
    IF n = 0 THEN <<>>
    ELSE ObservedItems(repository, tag, n - 1)
         \o (IF calls[n].repository = repository /\ calls[n].tag = tag
             THEN LET wanted == WantedFrom(calls[n], 1, 1)
                  IN [x \in DOMAIN wanted |->
                         [architecture |-> wanted[x].architecture,
                          date |-> wanted[x].date,
                          digest |-> wanted[x].digest]]
             ELSE <<>>)

(* C14: when find_images has returned, the tag history of a repository and  *)
(* tag holds one item for each matching image of every observation made for *)
(* that repository and tag, in observation order.  Violated: each build of  *)
(* a build-tracking tag is folded by a call of its own, which stores a new  *)
(* history under the tag (line 139) over the one of the build before.       *)
C14_TagHistoryComplete ==
    pc = "returned" =>
        \A n \in DOMAIN calls :
            LET c == calls[n]
                items == ObservedItems(c.repository, c.tag, Len(calls))
            IN items # <<>> =>
                 /\ c.repository \in DOMAIN registry
                 /\ c.tag \in DOMAIN registry[c.repository].tag_histories
                 /\ registry[c.repository].tag_histories[c.tag].items = items

\* The builds of a listTagged answer that are Flatpak builds, in its order.
RECURSIVE FlatpakOf(_)
FlatpakOf(tagged_builds) ==
    IF tagged_builds = <<>> THEN <<>>
    ELSE (IF BuildDB(Head(tagged_builds)).flatpak THEN <<Head(tagged_builds)>> ELSE <<>>)
         \o FlatpakOf(Tail(tagged_builds))

(* C16: of the builds listTagged returns for a build-tracking tag, the      *)
(* Flatpak builds, and only they, are each handed to _add_build_history, in *)
(* the order listed, for the build's repository, under the tag, alone and   *)
(* with the epoch as date; a build of another kind is passed over and       *)
(* raises nothing; every item of the tag's history has the epoch as date.   *)
C16_KojiWalkFlatpakOnly ==
    \A k \in DOMAIN listed :
        LET l == listed[k]
            flatpak == FlatpakOf(l.tagged_builds)
        IN /\ l.to - l.from = Len(flatpak)
           /\ \A j \in DOMAIN flatpak :
                LET c == calls[l.from + j]
                IN /\ c.tag = l.koji_tag
                   /\ Len(c.build_items) = 1
                   /\ c.build_items[1].build.nvr = flatpak[j]
                   /\ c.build_items[1].build.flatpak
                   /\ c.build_items[1].date = 0
                   /\ c.repository = BuildDB(flatpak[j]).repository
           /\ \A repo \in DOMAIN registry :
                l.koji_tag \in DOMAIN registry[repo].tag_histories =>
                    \A i \in DOMAIN registry[repo].tag_histories[l.koji_tag].items :
                        registry[repo].tag_histories[l.koji_tag].items[i].date = 0
           /\ pc # "raised"
           /\ exc = "none"

\* A tag that lists a build of another kind before a Flatpak build.
C16_Witness ==
    \E k \in DOMAIN listed :
        /\ listed[k].tagged_builds = <<NvrC, NvrA>>
        /\ listed[k].to = listed[k].from + 1
        /\ calls[listed[k].to].build_items[1].build.nvr = NvrA
        /\ KojiTagRc \in DOMAIN registry["r1"].tag_histories

(* C18: a step of find_images in which every _add_build_history call made   *)
(* has no image its architecture set asks for leaves the registry model as  *)
(* it was: no repository made, no image added or retagged, no tag history   *)
(* stored or replaced. A tag history that comes back empty has no build     *)
(* looked up, no _add_build_history call and no change of the model.        *)
C18_NoMatchNoChange ==
    [][/\ (\A n \in (Len(calls) + 1)..Len(calls') :
              WantedFrom(calls'[n], 1, 1) = <<>>) => registry' = registry
       /\ (/\ Len(fetches') = Len(fetches) + 1
           /\ fetches'[Len(fetches')].result = Returns(<<>>)) =>
              /\ fetches'[Len(fetches')].lookups = 0
              /\ calls' = calls
              /\ registry' = registry]_vars

\* The catalog answered one tag with an empty history, and a call was made for
\* builds with no image of the architecture asked for, into a repository the
\* model does not have.
C18_Witness ==
    /\ \E k \in DOMAIN fetches :
         /\ fetches[k].outcome.status = 200
         /\ fetches[k].result = Returns(<<>>)
    /\ \E n \in DOMAIN calls :
         /\ calls[n].build_items # <<>>
         /\ WantedFrom(calls[n], 1, 1) = <<>>
         /\ calls[n].repository \notin DOMAIN registry

----------------------------------------------------------------------------
(* utils.atomic_writer, utils.py:86-127, as Registry.write uses it            *)
(* (updater.py:173-177): the caller's with-block writes the JSON text of the  *)
(* registry, chunk by chunk, into the writer atomic_writer yields.            *)

\* The JSON documents a registry may be written as.
JsonEmpty == <<"{", "}">>
JsonOne == <<"{", "r1", "}">>
JsonTwo == <<"{", "r1", "r2", "}">>
Payloads == {JsonEmpty, JsonOne, JsonTwo}

\* The mode os.chmod sets (line 116) and the one NamedTemporaryFile creates with.
Mode644 == 420
Mode600 == 384

\* hashlib.sha256 of a file's bytes (lines 104-109): one digest per content.
sha256(content) == [algorithm |-> "sha256", of |-> content]

\* (mutant) lines 103-112 dropped: every write counts as a change
Changed_Always(output, tmpfile) == TRUE

\* lines 102-112
Changed(output, tmpfile) ==
    IF output.exists
    THEN sha256(output.content) # sha256(tmpfile.content)
    ELSE TRUE

\* lines 124-127: the finally block of a call that did not succeed.  On a file
\* still open, tmpfile.close() (line 126) first flushes what is buffered; when
\* that flush raises, the file is closed but line 127 is not reached.  On a
\* file already closed, close() does nothing.
Cleanup(tmpfile, flushed) ==
    IF tmpfile.open /\ tmpfile.buffer # <<>> /\ ~flushed
    THEN [tmpfile EXCEPT !.open = FALSE, !.buffer = <<>>]
    ELSE [tmpfile EXCEPT !.open = FALSE, !.buffer = <<>>, !.exists = FALSE]

InitWriter ==
    /\ FindIdle
    /\ UpdateIdle
    /\ ExtIdle
    /\ target \in {NoFile}
                  \cup {[exists |-> TRUE, content |-> p, buffer |-> <<>>, mtime |-> 0,
                         mode |-> Mode644, open |-> FALSE] : p \in Payloads}
    /\ tmp = NoFile
    /\ wpc = "idle"
    /\ payload = <<>>
    /\ clock = 0
    /\ writes = 0
    /\ before = target
    /\ renames = 0
    /\ fault = "none"

\* A step of the call raised, leaving the temporary file as tmpfile: the
\* finally block runs and an exception leaves the call.
Fails(step, tmpfile) ==
    /\ \E flushed \in BOOLEAN : tmp' = Cleanup(tmpfile, flushed)
    /\ wpc' = "failed"
    /\ fault' = step
    /\ UNCHANGED <<target, payload, clock, writes, before, renames>>

\* lines 88-95: the temporary file is created and the writer handed to the caller
WriterEnter ==
    /\ wpc \in {"idle", "done", "failed"}
    /\ writes < MaxWrites
    /\ \E p \in Payloads, ok \in BOOLEAN :
         /\ payload' = p
         /\ IF ok
            THEN /\ tmp' = [exists |-> TRUE, content |-> <<>>, buffer |-> <<>>,
                            mtime |-> clock + 1, mode |-> Mode600, open |-> TRUE]
                 /\ wpc' = "body"
                 /\ fault' = "none"
            ELSE /\ tmp' = NoFile                       \* line 89 raised
                 /\ wpc' = "failed"
                 /\ fault' = "create"
    /\ clock' = clock + 1
    /\ writes' = writes + 1
    /\ before' = target
    /\ renames' = 0
    /\ UNCHANGED <<target, findVars, updateVars, extVars>>

\* How much of the payload the with-block has handed to the writer.
Written(tmpfile) == Len(tmpfile.content) + Len(tmpfile.buffer)

\* The chunk joins the buffer of the open file.
Buffered(tmpfile, chunk) == [tmpfile EXCEPT !.buffer = Append(@, chunk)]

\* The buffer goes to disk.
Flushed(tmpfile) == [tmpfile EXCEPT !.content = @ \o tmpfile.buffer, !.buffer = <<>>]

\* the caller's with-block writes the next chunk (updater.py:176-177); the
\* file object flushes its buffer when it sees fit
BodyWrite ==
    /\ wpc = "body"
    /\ Written(tmp) < Len(payload)
    /\ \E flush \in BOOLEAN :
         LET wrote == Buffered(tmp, payload[Written(tmp) + 1])
         IN tmp' = IF flush THEN Flushed(wrote) ELSE wrote
    /\ UNCHANGED <<target, wpc, payload, clock, writes, before, renames, fault,
                   findVars, updateVars, extVars>>

\* the caller's with-block raises: the exception arrives at the yield of line
\* 95.  Either the serialisation raised between two writes ("body"), or a
\* write raised because the flush it set off failed ("write").
BodyRaise ==
    /\ wpc = "body"
    /\ \/ Fails("body", tmp)
       \/ /\ Written(tmp) < Len(payload)
          /\ Fails("write", Buffered(tmp, payload[Written(tmp) + 1]))
    /\ UNCHANGED <<findVars, updateVars, extVars>>

\* lines 96-97, once the with-block has ended: writer.close() flushes and
\* closes the file, and closes it even when the flush raises
WriterClose ==
    /\ wpc = "body"
    /\ Written(tmp) = Len(payload)
    /\ \E ok \in BOOLEAN :
         IF ok
         THEN /\ tmp' = [Flushed(tmp) EXCEPT !.open = FALSE]
              /\ wpc' = "closed"
              /\ UNCHANGED <<target, payload, clock, writes, before, renames, fault>>
         ELSE Fails("close", [tmp EXCEPT !.open = FALSE, !.buffer = <<>>])
    /\ UNCHANGED <<findVars, updateVars, extVars>>

\* lines 102-112
Compare ==
    /\ wpc = "closed"
    /\ \E ok \in BOOLEAN :
         IF ok
         THEN /\ wpc' = IF Changed(target, tmp) THEN "changed" ELSE "unchanged"
              /\ UNCHANGED <<target, tmp, payload, clock, writes, before, renames,
                             fault>>
         ELSE Fails("hash", tmp)
    /\ UNCHANGED <<findVars, updateVars, extVars>>

\* line 116
Chmod ==
    /\ wpc = "changed"
    /\ \E ok \in BOOLEAN :
         IF ok
         THEN /\ tmp' = [tmp EXCEPT !.mode = Mode644]
              /\ wpc' = "chmodded"
              /\ UNCHANGED <<target, payload, clock, writes, before, renames, fault>>
         ELSE Fails("chmod", tmp)
    /\ UNCHANGED <<findVars, updateVars, extVars>>

\* lines 117-123
Rename ==
    /\ wpc = "chmodded"
    /\ \E ok \in BOOLEAN :
         IF ok
         THEN /\ target' = tmp
              /\ tmp' = NoFile
              /\ renames' = renames + 1
              /\ wpc' = "done"
              /\ UNCHANGED <<payload, clock, writes, before, fault>>
         ELSE Fails("rename", tmp)
    /\ UNCHANGED <<findVars, updateVars, extVars>>

\* lines 120-123
UnlinkUnchanged ==
    /\ wpc = "unchanged"
    /\ tmp' = NoFile
    /\ wpc' = "done"
    /\ UNCHANGED <<target, payload, clock, writes, before, renames, fault,
                   findVars, updateVars, extVars>>

NextWriter ==
    \/ WriterEnter
    \/ BodyWrite
    \/ BodyRaise
    \/ WriterClose
    \/ Compare
    \/ Chmod
    \/ Rename
    \/ UnlinkUnchanged

SpecWriter == InitWriter /\ [][NextWriter]_vars

(* C8: a call that completes with content identical to the target's leaves   *)
(* the target as it was, modification time included, and deletes the         *)
(* temporary file; with the target absent or different, the target becomes   *)
(* the new content by one rename of the temporary file.                      *)
C8_WriterIdempotent ==
    wpc = "done" =>
        /\ ~tmp.exists
        /\ IF before.exists /\ before.content = payload
           THEN /\ target = before
                /\ renames = 0
           ELSE /\ renames = 1
                /\ target.exists
                /\ target.content = payload
                /\ target.mtime = clock
                /\ target.mtime > before.mtime
                /\ target.mode = Mode644

\* The same content written a second time, later than the first.
C8_Witness ==
    /\ wpc = "done"
    /\ writes = 2
    /\ before.exists
    /\ before.content = payload
    /\ before.mtime = 1
    /\ clock = 2

(* C9: when the with-block, a step before the rename, or the rename raises, *)
(* the call ends with the target as it found it and the temporary file      *)
(* gone; and the target never holds anything but a complete document.       *)
(* Violated: a with-block that raises with data still buffered, on a disk   *)
(* that takes no more, makes line 126 raise too, and the temporary file     *)
(* stays; the target is as it was.                                          *)
C9_FailureKeepsTarget ==
    /\ wpc = "failed" =>
         /\ fault # "none"
         /\ target = before
         /\ ~tmp.exists
    /\ wpc \in {"body", "closed", "changed", "unchanged", "chmodded"} =>
         /\ target = before
         /\ tmp.exists
    /\ target.exists => target.content \in Payloads
    /\ target # before => (wpc = "done" /\ renames = 1 /\ target.content = payload)

----------------------------------------------------------------------------
(* PyxisUpdater.update, updater.py:188-205.  What find_images and write do *)
(* to a registry is told above; here each is one call that returns or      *)
(* raises.                                                                 *)

\* self.conf.registries[name].datasource
Datasource(name) ==
    IF name \in {"registry.example.com", "brew"} THEN "pyxis" ELSE "fedora"

ConfIndex(registry_name, tag, koji_tag, architecture) ==
    [registry |-> registry_name] @@ IndexConfig(tag, koji_tag, architecture)

\* The indexes a configuration may list.
ConfIndexes ==
    { ConfIndex("registry.example.com", TagLatest, <<>>, "amd64"),
      ConfIndex("registry.example.com", <<>>, KojiTagRc, ArchAny),
      ConfIndex("brew", <<>>, KojiTagRc, "amd64"),
      ConfIndex("fedora", TagLatest, <<>>, ArchAny) }

\* Registry.__init__, lines 23-30, with what update() records of its run and
\* the registry's output file, which holds what a run before this one wrote
Registry(name) ==
    [name |-> name, tag_indexes |-> <<>>, koji_indexes |-> <<>>,
     found |-> FALSE, write_called |-> FALSE, written |-> FALSE,
     output |-> "previous"]

\* Where update goes after its first loop.
AfterIndexes(i, regs) ==
    IF i <= Len(conf_indexes) THEN "indexes"
    ELSE IF regs = <<>> THEN "done"
    ELSE "find"

InitUpdate ==
    /\ FindIdle
    /\ WriterIdle
    /\ ExtIdle
    /\ conf_indexes \in SeqsUpTo(ConfIndexes, MaxIndexes)
    /\ registries = <<>>
    /\ upc = IF conf_indexes = <<>> THEN "done" ELSE "indexes"
    /\ ui = 1
    /\ ur = 1

\* lines 190-201, one iteration
AddIndex ==
    /\ upc = "indexes"
    /\ LET index_config == conf_indexes[ui]
           registry_name == index_config.registry
           I == {i \in DOMAIN registries : registries[i].name = registry_name}
           regs == IF I = {} THEN Append(registries, Registry(registry_name))
                   ELSE registries
           at == CHOOSE i \in DOMAIN regs : regs[i].name = registry_name
       IN IF Datasource(registry_name) # "pyxis"
          THEN /\ registries' = registries                            \* line 193
               /\ upc' = AfterIndexes(ui + 1, registries)
          ELSE /\ registries' = [regs EXCEPT ![at] = add_index(@, index_config)]
               /\ upc' = AfterIndexes(ui + 1, regs)
    /\ ui' = ui + 1
    /\ UNCHANGED <<conf_indexes, ur, findVars, writerVars, extVars>>

\* (mutant) an exception of find_images caught and passed over
AfterFind_Swallowed(returns) == "write"

\* lines 204-205: where update goes after find_images; nothing catches what
\* it raises
AfterFind(returns) == IF returns THEN "write" ELSE "raised"

\* line 204: registry.find_images() returns, or raises out of update
FindImages ==
    /\ upc = "find"
    /\ \E returns \in BOOLEAN :
         /\ registries' = [registries EXCEPT ![ur].found = returns]
         /\ upc' = AfterFind(returns)
    /\ UNCHANGED <<conf_indexes, ui, ur, findVars, writerVars, extVars>>

\* line 205: registry.write() returns, or raises out of update
Write ==
    /\ upc = "write"
    /\ \E returns \in BOOLEAN :
         IF returns
         THEN /\ registries' = [registries EXCEPT ![ur].write_called = TRUE,
                                                  ![ur].written = TRUE,
                                                  ![ur].output = "snapshot"]
              /\ ur' = ur + 1
              /\ upc' = IF ur + 1 > Len(registries) THEN "done" ELSE "find"
         ELSE /\ registries' = [registries EXCEPT ![ur].write_called = TRUE]
              /\ upc' = "raised"
              /\ UNCHANGED ur
    /\ UNCHANGED <<conf_indexes, ui, findVars, writerVars, extVars>>

NextUpdate == AddIndex \/ FindImages \/ Write

SpecUpdate == InitUpdate /\ [][NextUpdate]_vars

(* C10: when update ends, whether it returned or a registry's find_images or *)
(* write raised, every other registry has completed find_images and written  *)
(* its snapshot.                                                             *)
C10_OtherRegistriesComplete ==
    upc \in {"done", "raised"} =>
        \A i \in DOMAIN registries :
            (upc = "raised" /\ i = ur) \/ (registries[i].found /\ registries[i].written)

(* C17: write() is called for a registry only once its find_images() has    *)
(* returned; a registry whose find_images raised, or was never reached, has *)
(* no write() called and its output file is as the run found it.            *)
C17_WriteAfterFind ==
    \A i \in DOMAIN registries :
        /\ registries[i].write_called => registries[i].found
        /\ registries[i].output # "previous" => registries[i].write_called
        /\ (upc = "raised" /\ i = ur /\ ~registries[i].found) =>
              /\ ~registries[i].write_called
              /\ registries[i].output = "previous"

\* The first registry is written and the second's find_images has raised.
C17_Witness ==
    /\ upc = "raised"
    /\ ur = 2
    /\ registries[1].written
    /\ ~registries[2].found
    /\ registries[2].output = "previous"

\* The indexes update's first loop has gone through.
Processed == SubSeq(conf_indexes, 1, ui - 1)

(* C19: the registries update holds are, each once, the names of the        *)
(* indexes gone through whose datasource is pyxis; a registry's tag_indexes *)
(* are its indexes without a build tag and its koji_indexes those with one, *)
(* each in configuration order; a registry of another datasource has no     *)
(* Registry, is given no index, and is neither polled nor written.          *)
C19_OneRegistryPerPyxisName ==
    /\ {registries[i].name : i \in DOMAIN registries}
         = {Processed[k].registry : k \in {k \in DOMAIN Processed :
                                             Datasource(Processed[k].registry) = "pyxis"}}
    /\ \A i, j \in DOMAIN registries :
         registries[i].name = registries[j].name => i = j
    /\ \A i \in DOMAIN registries :
         LET Tagged(x) == x.registry = registries[i].name /\ x.koji_tag = <<>>
             BuildTagged(x) == x.registry = registries[i].name /\ x.koji_tag # <<>>
         IN /\ registries[i].tag_indexes = SelectSeq(Processed, Tagged)
            /\ registries[i].koji_indexes = SelectSeq(Processed, BuildTagged)
            /\ Len(registries[i].tag_indexes) + Len(registries[i].koji_indexes) >= 1
    /\ \A i \in DOMAIN registries :
         (registries[i].found \/ registries[i].write_called) =>
             Datasource(registries[i].name) = "pyxis"

\* A configuration with a tag index of one pyxis registry, a build-tag index of
\* another and an index of a registry of another datasource, gone through to
\* the end of update.
C19_Witness ==
    /\ upc = "done"
    /\ Len(registries) = 2
    /\ \E k \in DOMAIN conf_indexes : Datasource(conf_indexes[k].registry) # "pyxis"
    /\ \E i \in DOMAIN registries : registries[i].tag_indexes # <<>>
    /\ \E i \in DOMAIN registries : registries[i].koji_indexes # <<>>
    /\ \A i \in DOMAIN registries : registries[i].written

----------------------------------------------------------------------------
(* json_model.py: the typed model layer.  A Python value is a record with   *)
(* its type; a dict keeps its items as <<key, value>> pairs in insertion    *)
(* order; an exception that a call raises is the value the call gives.      *)

None == [type |-> "NoneType"]
PyStr(s) == [type |-> "str", value |-> s]
PyInt(n) == [type |-> "int", value |-> n]
\* an aware datetime, by its instant: seconds since the epoch
PyDatetime(n) == [type |-> "datetime", value |-> n]
PyList(items) == [type |-> "list", value |-> items]
PyDict(items) == [type |-> "dict", value |-> items]
PyObject(cls, attrs) == [type |-> "object", cls |-> cls, value |-> attrs]
PyRaise(e) == [type |-> "raise", value |-> e]

IsRaise(v) == v.type = "raise"

\* The first exception raised while the values of s were computed in order,
\* the result when none was.
Propagate(s, result) ==
    IF \E i \in DOMAIN s : IsRaise(s[i])
    THEN s[CHOOSE i \in DOMAIN s : IsRaise(s[i]) /\ \A k \in 1..(i - 1) : ~IsRaise(s[k])]
    ELSE result

DictKeys(d) == {d.value[i][1] : i \in DOMAIN d.value}

DictValues(d) == [i \in DOMAIN d.value |-> d.value[i][2]]

\* d.get(key)
DictGet(d, key) ==
    IF key \in DictKeys(d)
    THEN d.value[CHOOSE i \in DOMAIN d.value : d.value[i][1] = key][2]
    ELSE None

\* d[key] = v
DictSet(d, key, v) ==
    IF key \in DictKeys(d)
    THEN PyDict([i \in DOMAIN d.value |->
                    IF d.value[i][1] = key THEN <<key, v>> ELSE d.value[i]])
    ELSE PyDict(Append(d.value, <<key, v>>))

\* {k: v for k, v in pairs}
RECURSIVE DictOf(_, _)
DictOf(pairs, acc) ==
    IF pairs = <<>> THEN acc
    ELSE DictOf(Tail(pairs), DictSet(acc, Head(pairs)[1], Head(pairs)[2]))

\* bool(v) of None, a list or a dict
bool(v) == v.type # "NoneType" /\ v.value # <<>>

getattr(instance, name) == instance.value[name]

\* The characters of the strings, in code point order.
Alphabet == <<"0", "1", "2", "a", "b">>

Ord(c) == CHOOSE i \in DOMAIN Alphabet : Alphabet[i] = c

\* a < b on str
RECURSIVE StrLess(_, _)
StrLess(a, b) ==
    IF b = <<>> THEN FALSE
    ELSE IF a = <<>> THEN TRUE
    ELSE IF Head(a) = Head(b) THEN StrLess(Tail(a), Tail(b))
    ELSE Ord(Head(a)) < Ord(Head(b))

\* str(v) of a str or of an int of one digit
str(v) ==
    IF v.type = "str" THEN v
    ELSE IF v.type = "int" THEN PyStr(<<Alphabet[v.value + 1]>>)
    ELSE PyRaise("TypeError")

\* int(v) of an int or of a str of one digit
int(v) ==
    IF v.type = "int" THEN v
    ELSE IF v.type = "str" /\ Len(v.value) = 1 /\ Ord(v.value[1]) <= 3
         THEN PyInt(Ord(v.value[1]) - 1)
    ELSE PyRaise("ValueError")

\* utils.format_date, the inverse of utils.parse_date: the text of the instant
format_date(dt) == PyStr(IsoDate(dt.value))

\* sorted(values, key=lambda x: getattr(x, indexed_field)): a stable sort
RECURSIVE Insert(_, _, _)
Insert(s, x, indexed_field) ==
    IF s = <<>> THEN <<x>>
    ELSE IF StrLess(getattr(x, indexed_field).value,
                    getattr(s[Len(s)], indexed_field).value)
         THEN Append(Insert(SubSeq(s, 1, Len(s) - 1), x, indexed_field), s[Len(s)])
         ELSE Append(s, x)

\* (mutant) line 151 without sorted(): the values in insertion order
sorted_Unsorted(values, indexed_field) == values

RECURSIVE sorted(_, _)
sorted(values, indexed_field) ==
    IF values = <<>> THEN <<>>
    ELSE Insert(sorted(SubSeq(values, 1, Len(values) - 1), indexed_field),
                values[Len(values)], indexed_field)

(* The model classes: those of tests/test_json_model.py.  An annotation is  *)
(* a field's name with what utils.resolve_type makes of its declared type;  *)
(* indexed_field is that of field(index=...), "" when there is none.        *)
Annotation(name, resolved, args, optional, indexed_field) ==
    [name |-> name, resolved |-> resolved, args |-> args, optional |-> optional,
     indexed_field |-> indexed_field]

Classes == {"StringStuff", "IntegerStuff", "DateTimeStuff", "ClassStuff", "ListStuff",
            "IndexedListStuff", "DictStuff", "OptionalStuff"}

Annotations(cls) ==
    CASE cls = "StringStuff" -> <<Annotation("f1", "str", <<>>, FALSE, "")>>
      [] cls = "IntegerStuff" -> <<Annotation("f1", "int", <<>>, FALSE, "")>>
      [] cls = "DateTimeStuff" -> <<Annotation("f1", "datetime", <<>>, FALSE, "")>>
      [] cls = "ClassStuff" -> <<Annotation("f1", "StringStuff", <<>>, FALSE, "")>>
      [] cls = "ListStuff" -> <<Annotation("f1", "list", <<"str">>, FALSE, ""),
                                Annotation("f2", "list", <<"StringStuff">>, FALSE, "")>>
      [] cls = "IndexedListStuff" ->
             <<Annotation("f1", "dict", <<"str", "StringStuff">>, FALSE, "f1")>>
      [] cls = "DictStuff" ->
             <<Annotation("f1", "dict", <<"str", "str">>, FALSE, ""),
               Annotation("f2", "dict", <<"str", "StringStuff">>, FALSE, "")>>
      [] cls = "OptionalStuff" -> <<Annotation("f1", "int", <<>>, TRUE, "")>>

\* ModelField and its subclasses, lines 21-26, 56-59, 88-94, 140-142
ModelField(kind, python_name, json_name, optional, item_type, indexed_field) ==
    [kind |-> kind, python_name |-> python_name, json_name |-> json_name,
     optional |-> optional, item_type |-> item_type, indexed_field |-> indexed_field]

\* line 211: ''.join(x.capitalize() for x in name.split('_'))
JsonName(name) ==
    CASE name = "f1" -> "F1"
      [] name = "f2" -> "F2"

\* lines 203-239
make_model_field(a) ==
    LET json_name == JsonName(a.name)
    IN IF a.indexed_field # ""
       THEN IF a.resolved # "dict" \/ a.args[1] # "str"
            THEN PyRaise("TypeError")
            ELSE ModelField("IndexedListField", a.name, json_name, FALSE, a.args[2],
                            a.indexed_field)
       ELSE IF a.resolved = "dict"
       THEN IF a.args[1] # "str"
            THEN PyRaise("TypeError")
            ELSE ModelField("DictField", a.name, json_name, FALSE, a.args[2], "")
       ELSE IF a.resolved = "list"
       THEN ModelField("ListField", a.name, json_name, FALSE, a.args[1], "")
       ELSE IF a.resolved \in Classes
       THEN ModelField("ClassField", a.name, json_name, a.optional, a.resolved, "")
       ELSE IF a.resolved = "str"
       THEN ModelField("StringField", a.name, json_name, a.optional, "", "")
       ELSE IF a.resolved = "int"
       THEN ModelField("IntegerField", a.name, json_name, a.optional, "", "")
       ELSE IF a.resolved = "datetime"
       THEN ModelField("DateTimeField", a.name, json_name, a.optional, "", "")
       ELSE PyRaise("TypeError")

\* cls.__fields__, lines 245-251
fields(cls) == [i \in DOMAIN Annotations(cls) |-> make_model_field(Annotations(cls)[i])]

IsCollection(field) == field.kind \in {"ListField", "IndexedListField", "DictField"}

\* collection_type(), lines 107, 138, 170
collection_type(field) ==
    IF field.kind = "ListField" THEN PyList(<<>>) ELSE PyDict(<<>>)

\* The instance whose attributes, field by field, are vals; the first
\* exception when computing one of them raised.
Populated(cls, vals) ==
    LET fs == fields(cls)
    IN Propagate(vals,
                 PyObject(cls, [n \in {fs[i].python_name : i \in DOMAIN fs} |->
                                   vals[CHOOSE i \in DOMAIN fs : fs[i].python_name = n]]))

\* ScalarField.init_value, lines 29-34; CollectionField.init_value, lines 96-100
init_value(field, kwargs) ==
    IF IsCollection(field)
    THEN IF field.python_name \in DictKeys(kwargs)
         THEN DictGet(kwargs, field.python_name)
         ELSE collection_type(field)
    ELSE LET value == DictGet(kwargs, field.python_name)
         IN IF value = None /\ ~field.optional
            THEN PyRaise("AttributeError")
            ELSE value

\* BaseModel.__init__, lines 266-268
BaseModel_init(cls, kwargs) ==
    Populated(cls, [i \in DOMAIN fields(cls) |-> init_value(fields(cls)[i], kwargs)])

\* (mutant) line 38 as a truth test: a zero is left out as None is
json_include_Truthy(field, instance) ==
    IF IsCollection(field)
    THEN bool(getattr(instance, field.python_name))
    ELSE IF field.optional
         THEN /\ getattr(instance, field.python_name) # None
              /\ getattr(instance, field.python_name).value # 0
         ELSE TRUE

\* json_include, lines 36-40, 102-103, 144-145, 172-173
json_include(field, instance) ==
    IF IsCollection(field)
    THEN bool(getattr(instance, field.python_name))
    ELSE IF field.optional
         THEN getattr(instance, field.python_name) # None
         ELSE TRUE

RECURSIVE to_json(_)
RECURSIVE json_value(_, _)

\* json_value, lines 42-43 with 61-62, 69, 79, 84; 109-119; 147-152; 175-185
json_value(field, instance) ==
    LET v == getattr(instance, field.python_name)
    IN CASE field.kind = "ClassField" -> to_json(v)
         [] field.kind = "IntegerField" -> int(v)
         [] field.kind = "StringField" -> str(v)
         [] field.kind = "DateTimeField" -> format_date(v)
         [] field.kind = "ListField" ->
                PyList([i \in DOMAIN v.value |->
                           IF field.item_type = "str"
                           THEN str(v.value[i])
                           ELSE to_json(v.value[i])])
         [] field.kind = "IndexedListField" ->
                LET s == sorted(DictValues(v), field.indexed_field)
                IN PyList([i \in DOMAIN s |-> to_json(s[i])])
         [] field.kind = "DictField" ->
                DictOf([i \in DOMAIN v.value |->
                           <<str(v.value[i][1]),
                             IF field.item_type = "str"
                             THEN str(v.value[i][2])
                             ELSE to_json(v.value[i][2])>>],
                       PyDict(<<>>))

\* BaseModel.to_json, lines 270-275
to_json(self) ==
    LET included == SelectSeq(fields(self.cls), LAMBDA field : json_include(field, self))
    IN DictOf([i \in DOMAIN included |->
                  <<included[i].json_name, json_value(included[i], self)>>],
              PyDict(<<>>))

RECURSIVE from_json(_, _)
RECURSIVE python_value(_, _)

\* (mutant) lines 48-50 dropped: a missing or null value decodes as None
scalar_python_value_Lenient(field, value) ==
    IF value = None
    THEN None
    ELSE CASE field.kind = "ClassField" -> from_json(field.item_type, value)
           [] field.kind = "IntegerField" -> int(value)
           [] field.kind = "StringField" -> str(value)
           [] field.kind = "DateTimeField" -> PyDatetime(parse_date(value.value))

\* ScalarField.python_value, lines 45-53 with 64-65, 70, 80, 85, for
\* value = data.get(self.json_name)
scalar_python_value(field, value) ==
    IF value = None
    THEN IF ~field.optional THEN PyRaise("ValueError") ELSE None
    ELSE CASE field.kind = "ClassField" -> from_json(field.item_type, value)
           [] field.kind = "IntegerField" -> int(value)
           [] field.kind = "StringField" -> str(value)
           [] field.kind = "DateTimeField" -> PyDatetime(parse_date(value.value))

\* lines 164-166: {getattr(x, self.indexed_field): x for x in values}
indexed(values, indexed_field) ==
    DictOf([i \in DOMAIN values |-> <<getattr(values[i], indexed_field), values[i]>>],
           PyDict(<<>>))

\* python_value, lines 45-53, 121-134, 154-166, 187-200
python_value(field, data) ==
    IF ~IsCollection(field)
    THEN scalar_python_value(field, DictGet(data, field.json_name))
    ELSE IF field.json_name \notin DictKeys(data)
    THEN collection_type(field)
    ELSE LET v == DictGet(data, field.json_name)
         IN CASE field.kind = "ListField" ->
                     LET items == [i \in DOMAIN v.value |->
                                      IF field.item_type = "str"
                                      THEN str(v.value[i])
                                      ELSE from_json(field.item_type, v.value[i])]
                     IN Propagate(items, PyList(items))
              [] field.kind = "IndexedListField" ->
                     LET values == [i \in DOMAIN v.value |->
                                       from_json(field.item_type, v.value[i])]
                     IN Propagate(values, indexed(values, field.indexed_field))
              [] field.kind = "DictField" ->
                     LET items == [i \in DOMAIN v.value |->
                                      IF field.item_type = "str"
                                      THEN str(v.value[i][2])
                                      ELSE from_json(field.item_type, v.value[i][2])]
                     IN Propagate(items,
                                  DictOf([i \in DOMAIN v.value |->
                                             <<str(v.value[i][1]), items[i]>>],
                                         PyDict(<<>>)))

\* BaseModel.from_json, lines 280-295: class_from_json gives cls
from_json(cls, data) ==
    Populated(cls, [i \in DOMAIN fields(cls) |-> python_value(fields(cls)[i], data)])

(* The model layer at work: an instance is constructed, encoded and decoded *)
(* again; or JSON data arrives from elsewhere and is decoded.               *)

\* The strings the instances hold.
Words == {<<>>, <<"a">>, <<"b">>, <<"a", "b">>}
Strs == {PyStr(w) : w \in Words}
Ints == {PyInt(n) : n \in 0..2}
Datetimes == {PyDatetime(n) : n \in 0..2}
StringStuffs == {PyObject("StringStuff", [f1 |-> s]) : s \in Strs}

\* The item sequences of a dict: at most MaxItems of them, no key twice.
Items(K, V) ==
    {s \in SeqsUpTo(K \X V, MaxItems) : \A i, j \in DOMAIN s : s[i][1] = s[j][1] => i = j}

Kw(name, v) == PyDict(<< <<name, v>> >>)

\* The keyword arguments a constructor is called with.
Kwargs(cls) ==
    CASE cls = "StringStuff" ->
             {PyDict(<<>>), Kw("f1", None), Kw("f1", PyInt(1))}
                 \cup {Kw("f1", s) : s \in Strs}
      [] cls = "IntegerStuff" ->
             {PyDict(<<>>), Kw("f1", None)} \cup {Kw("f1", n) : n \in Ints}
      [] cls = "DateTimeStuff" ->
             {PyDict(<<>>), Kw("f1", None)} \cup {Kw("f1", d) : d \in Datetimes}
      [] cls = "ClassStuff" ->
             {PyDict(<<>>), Kw("f1", None)} \cup {Kw("f1", o) : o \in StringStuffs}
      [] cls = "OptionalStuff" ->
             {PyDict(<<>>), Kw("f1", None)} \cup {Kw("f1", n) : n \in Ints}
      [] cls = "ListStuff" ->
             {PyDict(<<>>), Kw("f1", None)}
                 \cup {Kw("f1", PyList(l)) : l \in SeqsUpTo(Strs, MaxItems)}
                 \cup {Kw("f2", PyList(l)) : l \in SeqsUpTo(StringStuffs, MaxItems)}
                 \cup {PyDict(<< <<"f2", PyList(l)>>, <<"f1", PyList(<<PyStr(<<"b">>)>>)>> >>) :
                          l \in SeqsUpTo(StringStuffs, 1)}
      [] cls = "IndexedListStuff" ->
             {PyDict(<<>>), Kw("f1", None)}
                 \cup {Kw("f1", PyDict(p)) : p \in Items(Strs, StringStuffs)}
      [] cls = "DictStuff" ->
             {PyDict(<<>>)}
                 \cup {Kw("f1", PyDict(p)) : p \in Items(Strs, Strs)}
                 \cup {Kw("f2", PyDict(p)) : p \in Items(Strs, StringStuffs)}

\* The JSON data that arrives from elsewhere.
Documents(cls) ==
    CASE cls = "StringStuff" ->
             {PyDict(<<>>), Kw("F1", None)} \cup {Kw("F1", s) : s \in Strs}
      [] cls = "IntegerStuff" ->
             {PyDict(<<>>), Kw("F1", None)} \cup {Kw("F1", n) : n \in Ints}
      [] cls = "DateTimeStuff" ->
             {PyDict(<<>>), Kw("F1", None)} \cup {Kw("F1", format_date(d)) : d \in Datetimes}
      [] cls = "ClassStuff" ->
             {PyDict(<<>>), Kw("F1", None), Kw("F1", PyDict(<<>>)),
              Kw("F1", Kw("F1", None)), Kw("F1", Kw("F1", PyStr(<<"a">>)))}
      [] cls = "OptionalStuff" ->
             {PyDict(<<>>), Kw("F1", None)} \cup {Kw("F1", n) : n \in Ints}
      [] cls = "ListStuff" ->
             {PyDict(<<>>), Kw("F2", PyList(<<PyDict(<<>>)>>))}
      [] cls = "IndexedListStuff" ->
             {PyDict(<<>>)}
                 \cup {Kw("F1", PyList(l)) :
                          l \in SeqsUpTo({PyDict(<<>>)} \cup {Kw("F1", s) : s \in Strs},
                                         MaxItems)}
      [] cls = "DictStuff" ->
             {PyDict(<<>>), Kw("F2", Kw(PyStr(<<"a">>), Kw("F1", None)))}

InitJson ==
    /\ FindIdle
    /\ WriterIdle
    /\ UpdateIdle
    /\ JsonIdle
    /\ PagingIdle
    /\ RetryIdle

\* cls(**kwargs)
Construct ==
    /\ jpc = "start"
    /\ \E cls \in Classes :
         \E kwargs \in Kwargs(cls) :
            /\ jcls' = cls
            /\ jkwargs' = kwargs
            /\ jobj' = BaseModel_init(cls, kwargs)
            /\ jpc' = IF IsRaise(BaseModel_init(cls, kwargs))
                      THEN "init_raised" ELSE "constructed"
    /\ UNCHANGED <<jdata, jback, findVars, writerVars, updateVars,
                   pagingVars, retryVars>>

\* the instance's to_json()
ToJson ==
    /\ jpc = "constructed"
    /\ jdata' = to_json(jobj)
    /\ jpc' = "encoded"
    /\ UNCHANGED <<jcls, jkwargs, jobj, jback, findVars, writerVars, updateVars,
                   pagingVars, retryVars>>

\* JSON data arrives for a class, for the one whose constructor raised if one did
Receive ==
    /\ jpc \in {"start", "init_raised"}
    /\ \E cls \in (IF jpc = "start" THEN Classes ELSE {jcls}) :
         \E data \in Documents(cls) :
            /\ jcls' = cls
            /\ jdata' = data
    /\ jpc' = "received"
    /\ UNCHANGED <<jkwargs, jobj, jback, findVars, writerVars, updateVars,
                   pagingVars, retryVars>>

\* cls.from_json(data)
FromJson ==
    /\ jpc \in {"encoded", "received"}
    /\ jback' = from_json(jcls, jdata)
    /\ jpc' = IF IsRaise(from_json(jcls, jdata)) THEN "decode_raised" ELSE "decoded"
    /\ UNCHANGED <<jcls, jkwargs, jobj, jdata, findVars, writerVars, updateVars,
                   pagingVars, retryVars>>

NextJson ==
    \/ Construct
    \/ ToJson
    \/ Receive
    \/ FromJson

SpecJson == InitJson /\ [][NextJson]_vars

\* A value is what the field declares: of its type, None only where the
\* field is optional, an indexed collection keyed by its items' indexed field.
RECURSIVE ValidObject(_, _)
RECURSIVE ValidValue(_, _)
ValidValue(field, v) ==
    CASE field.kind = "StringField" -> v.type = "str" \/ (field.optional /\ v = None)
      [] field.kind = "IntegerField" -> v.type = "int" \/ (field.optional /\ v = None)
      [] field.kind = "DateTimeField" -> v.type = "datetime" \/ (field.optional /\ v = None)
      [] field.kind = "ClassField" ->
             ValidObject(field.item_type, v) \/ (field.optional /\ v = None)
      [] field.kind = "ListField" ->
             /\ v.type = "list"
             /\ \A i \in DOMAIN v.value :
                  IF field.item_type = "str" THEN v.value[i].type = "str"
                  ELSE ValidObject(field.item_type, v.value[i])
      [] field.kind = "DictField" ->
             /\ v.type = "dict"
             /\ \A i \in DOMAIN v.value :
                  /\ v.value[i][1].type = "str"
                  /\ IF field.item_type = "str" THEN v.value[i][2].type = "str"
                     ELSE ValidObject(field.item_type, v.value[i][2])
      [] field.kind = "IndexedListField" ->
             /\ v.type = "dict"
             /\ \A i \in DOMAIN v.value :
                  /\ ValidObject(field.item_type, v.value[i][2])
                  /\ v.value[i][1] = getattr(v.value[i][2], field.indexed_field)

ValidObject(cls, v) ==
    /\ v.type = "object"
    /\ v.cls = cls
    /\ \A i \in DOMAIN fields(cls) :
         ValidValue(fields(cls)[i], getattr(v, fields(cls)[i].python_name))

\* x and y are equal field by field: lists item by item in order, dicts as
\* sets of (key, value), instances attribute by attribute.
RECURSIVE Same(_, _)
Same(x, y) ==
    /\ x.type = y.type
    /\ CASE x.type = "object" ->
                /\ x.cls = y.cls
                /\ DOMAIN x.value = DOMAIN y.value
                /\ \A n \in DOMAIN x.value : Same(x.value[n], y.value[n])
         [] x.type = "list" ->
                /\ Len(x.value) = Len(y.value)
                /\ \A i \in DOMAIN x.value : Same(x.value[i], y.value[i])
         [] x.type = "dict" ->
                /\ DictKeys(x) = DictKeys(y)
                /\ \A k \in DictKeys(x) : Same(DictGet(x, k), DictGet(y, k))
         [] OTHER -> x = y

RECURSIVE LacksRequired(_, _)
LacksRequired(cls, data) ==
    \E i \in DOMAIN fields(cls) :
        LET field == fields(cls)[i]
            v == DictGet(data, field.json_name)
        IN CASE field.kind \in {"StringField", "IntegerField", "DateTimeField"} ->
                    ~field.optional /\ v = None
             [] field.kind = "ClassField" ->
                    IF v = None THEN ~field.optional
                    ELSE LacksRequired(field.item_type, v)
             [] field.kind \in {"ListField", "IndexedListField"} ->
                    /\ v # None
                    /\ field.item_type # "str"
                    /\ \E k \in DOMAIN v.value : LacksRequired(field.item_type, v.value[k])
             [] field.kind = "DictField" ->
                    /\ v # None
                    /\ field.item_type # "str"
                    /\ \E k \in DOMAIN v.value :
                         LacksRequired(field.item_type, v.value[k][2])

(* C12: a constructor not given a required field (or given None for it)    *)
(* raises and makes no instance; from_json of data in which the key of a    *)
(* required field is absent or null raises and makes no instance.           *)
C12_RequiredFieldMissing ==
    /\ (/\ jkwargs.type = "dict"
        /\ \E i \in DOMAIN fields(jcls) :
             /\ ~IsCollection(fields(jcls)[i])
             /\ ~fields(jcls)[i].optional
             /\ DictGet(jkwargs, fields(jcls)[i].python_name) = None)
           => /\ jobj = PyRaise("AttributeError")
              /\ jpc \in {"init_raised", "received", "decoded", "decode_raised"}
    /\ (/\ jpc \in {"decoded", "decode_raised"}
        /\ LacksRequired(jcls, jdata))
           => /\ jpc = "decode_raised"
              /\ jback = PyRaise("ValueError")

\* A constructor was called without its required field, then data with the
\* field null was decoded.
C12_Witness ==
    /\ jpc = "decode_raised"
    /\ jcls = "IntegerStuff"
    /\ jkwargs = PyDict(<<>>)
    /\ jobj = PyRaise("AttributeError")
    /\ jdata = Kw("F1", None)
    /\ jback = PyRaise("ValueError")

\* The JSON name of an item class's field.
ItemJsonName(cls, python_name) ==
    LET fs == fields(cls)
    IN fs[CHOOSE i \in DOMAIN fs : fs[i].python_name = python_name].json_name

(* C13: an indexed collection that is not empty is encoded as an array with *)
(* every value of the map once, ascending by the indexed field whatever the *)
(* insertion order; a decoded array is a map holding each item under the    *)
(* value of its indexed field.                                              *)
C13_IndexedSorted ==
    jcls \in Classes =>
    \A i \in DOMAIN fields(jcls) :
        LET field == fields(jcls)[i]
            key == ItemJsonName(field.item_type, field.indexed_field)
        IN field.kind = "IndexedListField" =>
           /\ (/\ jpc \in {"encoded", "decoded", "decode_raised"}
               /\ jobj.type = "object"
               /\ bool(getattr(jobj, field.python_name)))
                  => LET d == getattr(jobj, field.python_name)
                         a == DictGet(jdata, field.json_name)
                     IN /\ a.type = "list"
                        /\ Len(a.value) = Len(d.value)
                        /\ \A k \in DOMAIN a.value :
                             Cardinality({m \in DOMAIN a.value : a.value[m] = a.value[k]})
                               = Cardinality({m \in DOMAIN d.value :
                                                 to_json(d.value[m][2]) = a.value[k]})
                        /\ \A k, m \in DOMAIN a.value :
                             k < m => ~StrLess(DictGet(a.value[m], key).value,
                                               DictGet(a.value[k], key).value)
           /\ (/\ jpc = "decoded"
               /\ field.json_name \in DictKeys(jdata))
                  => LET a == DictGet(jdata, field.json_name)
                         d == getattr(jback, field.python_name)
                     IN /\ d.type = "dict"
                        /\ \A k \in DOMAIN d.value :
                             /\ d.value[k][1] = getattr(d.value[k][2], field.indexed_field)
                             /\ \E m \in DOMAIN a.value :
                                  to_json(d.value[k][2]) = a.value[m]
                        /\ DictKeys(d) = {DictGet(a.value[m], key) : m \in DOMAIN a.value}

\* A map whose later key was inserted first has been encoded and decoded.
C13_Witness ==
    /\ jpc = "decoded"
    /\ jcls = "IndexedListStuff"
    /\ ValidObject(jcls, jobj)
    /\ getattr(jobj, "f1").value
         = << <<PyStr(<<"b">>), PyObject("StringStuff", [f1 |-> PyStr(<<"b">>)])>>,
              <<PyStr(<<"a">>), PyObject("StringStuff", [f1 |-> PyStr(<<"a">>)])>> >>
    /\ DictGet(jdata, "F1")
         = PyList(<<Kw("F1", PyStr(<<"a">>)), Kw("F1", PyStr(<<"b">>))>>)

----------------------------------------------------------------------------
(* Registry._do_iterate_pyxis_results, updater.py:65-83, request by request, *)
(* over a catalog that reports the same total in every response and answers *)
(* a page in full, or short of its last item, or with no item at all.       *)

\* The items the catalog holds for the URL.
Listing(n) == [i \in 1..n |-> [registry |-> RegistryName, repository |-> <<"r", i>>]]

\* The answers the catalog may give to the request for a page.
Answers(listing, size, at) ==
    LET full == CatalogPage(listing, size, at)
    IN {full,
        [full EXCEPT !.data = SubSeq(@, 1, Len(@) - 1)],
        [full EXCEPT !.data = <<>>]}

\* (mutant) line 80 without the items of the pages before
Covered_NoOffset(response_json, size, at) ==
    response_json.total <= Len(response_json.data)

\* (mutant) line 80 with < for <=
Covered_Strict(response_json, size, at) ==
    response_json.total < size * at + Len(response_json.data)

\* line 80
Covered(response_json, size, at) ==
    response_json.total <= size * at + Len(response_json.data)

InitPaging ==
    /\ WriterIdle
    /\ UpdateIdle
    /\ JsonIdle
    /\ RetryIdle
    /\ page_size \in 1..MaxPageSize
    /\ cat_listing \in {Listing(n) : n \in 0..MaxTotal}
    /\ iter_page = 0
    /\ iter_responses = <<>>
    /\ iter_yielded = <<>>
    /\ iter_pc = "iterating"
    /\ repositories = <<>>
    /\ tag_indexes = <<>>
    /\ koji_indexes = <<>>
    /\ registry = EmptyMap
    /\ pc = "idle"
    /\ todo = <<>>
    /\ ktodo = <<>>
    /\ exc = "none"
    /\ fetches = <<>>
    /\ calls = <<>>
    /\ listed = <<>>
    /\ catalog_history = <<>>

\* One iteration of the loop of lines 68-83; the model follows the generator
\* up to page MaxTotal.
RequestPage ==
    /\ iter_pc = "iterating"
    /\ iter_page <= MaxTotal
    /\ \E answer \in Answers(cat_listing, page_size, iter_page) :
         LET response_json == get_pyxis_url(Response(200, answer)).value
         IN /\ iter_responses' = Append(iter_responses,
                                        [query |-> PagedQuery(page_size, iter_page),
                                         response_json |-> response_json])
            /\ iter_yielded' = iter_yielded \o response_json.data
            /\ IF Covered(response_json, page_size, iter_page)
               THEN /\ iter_pc' = "done"
                    /\ iter_page' = iter_page
               ELSE /\ iter_pc' = "iterating"
                    /\ iter_page' = iter_page + 1
    /\ UNCHANGED <<cat_listing, findVars, writerVars, updateVars, jsonVars, retryVars>>

NextPaging == RequestPage

SpecPaging == InitPaging /\ [][NextPaging]_vars

\* Every response so far held its page in full.
FullPages ==
    \A i \in DOMAIN iter_responses :
        iter_responses[i].response_json
            = CatalogPage(cat_listing, page_size,
                          QueryValue(iter_responses[i].query, "page", 0))

\* max(1, ceil(total / page_size))
PagesOf(total, size) ==
    IF total = 0 THEN 1 ELSE (total + size - 1) \div size

(* C15: over a catalog that reports a constant total T and answers every    *)
(* page in full, the requests are for pages 0, 1, 2, ... in this order, each *)
(* with the page size; none follows the page on which page_size * page +    *)
(* len(data) reaches T; the items yielded are the catalog's, each once and  *)
(* in order; and the generator ends after max(1, ceil(T / page_size))       *)
(* requests.                                                                *)
C15_PagesInOrder ==
    FullPages =>
        LET T == Len(cat_listing)
            n == Len(iter_responses)
        IN /\ \A i \in 1..n :
                /\ QueryValue(iter_responses[i].query, "page", -1) = i - 1
                /\ QueryValue(iter_responses[i].query, "page_size", 0) = page_size
           /\ \A i \in 1..(n - 1) :
                page_size * (i - 1) + Len(iter_responses[i].response_json.data) < T
           /\ iter_yielded = SubSeq(cat_listing, 1, Min(T, page_size * n))
           /\ n <= PagesOf(T, page_size)
           /\ iter_pc = "done" <=> n = PagesOf(T, page_size)
           /\ iter_pc = "done" => iter_yielded = cat_listing

\* The generator has ended over 2 * page_size + 1 items on three full pages.
C15_Witness ==
    /\ iter_pc = "done"
    /\ FullPages
    /\ page_size >= 2
    /\ Len(cat_listing) = 2 * page_size + 1
    /\ Len(iter_responses) = 3
    /\ iter_yielded = cat_listing

\* The generator is driven by the for loop of line 106, which asks for the
\* next item until the generator ends.
SpecPagingFair == SpecPaging /\ WF_vars(RequestPage)

(* C21: over a catalog that reports a total T in every successful response, *)
(* _do_iterate_pyxis_results ends, and sends no more than                   *)
(* ceil(T / page_size) + 1 requests, whether the pages come in full, short  *)
(* of an item or empty while T is not yet covered.                          *)
C21_Terminates ==
    /\ [](Len(iter_responses)
            <= (Len(cat_listing) + page_size - 1) \div page_size + 1)
    /\ <>(iter_pc = "done")

\* The generator has ended although a page came empty and another short while
\* the total was not covered.
C21_Witness ==
    /\ iter_pc = "done"
    /\ \E i \in DOMAIN iter_responses :
         /\ iter_responses[i].response_json.data = <<>>
         /\ iter_responses[i].response_json.total > page_size * (i - 1)
    /\ \E i \in DOMAIN iter_responses :
         LET data == iter_responses[i].response_json.data
         IN /\ data # <<>>
            /\ Len(data) < page_size
            /\ iter_responses[i].response_json.total > page_size * (i - 1) + Len(data)

----------------------------------------------------------------------------
(* utils.get_retrying_requests_session, utils.py:16-38: one GET through the *)
(* session, with the Retry policy the adapters are mounted with.            *)

\* line 16
RETRY_MAX_TIMES == 3

\* lines 17-23
RETRY_STATUSES == {408, 500, 502, 503, 504}

\* Retry's statuses re-sent on a Retry-After header (respect_retry_after_header
\* is left at its default by lines 28-33)
RETRY_AFTER_STATUS_CODES == {413, 429, 503}

\* The statuses the catalog answers with.
Statuses == {200, 404, 429, 500, 503}

Answer(status, has_retry_after) ==
    [status |-> status, has_retry_after |-> has_retry_after]

\* Retry.is_retry for a GET: status_forcelist (line 31), or a Retry-After
\* header while total is not spent
is_retry(total, status, has_retry_after) ==
    \/ status \in RETRY_STATUSES
    \/ (total # 0 /\ has_retry_after /\ status \in RETRY_AFTER_STATUS_CODES)

\* Retry.increment and is_exhausted: total (line 32) goes down by one for a
\* re-send and is spent once below zero
increment(total) == total - 1
is_exhausted(total) == total < 0

InitRetry ==
    /\ FindIdle
    /\ WriterIdle
    /\ UpdateIdle
    /\ JsonIdle
    /\ PagingIdle
    /\ sends = <<>>
    /\ retry_total = RETRY_MAX_TIMES
    /\ session_pc = "sending"

\* One send of the request and what the adapter does with the answer: returns
\* it, sends again, or raises RetryError (raise_on_status, line 30).
SendRequest ==
    /\ session_pc = "sending"
    /\ \E status \in Statuses, has_retry_after \in BOOLEAN :
         /\ sends' = Append(sends, Answer(status, has_retry_after))
         /\ IF ~is_retry(retry_total, status, has_retry_after)
            THEN /\ session_pc' = "returned"
                 /\ UNCHANGED retry_total
            ELSE IF is_exhausted(increment(retry_total))
            THEN /\ session_pc' = "raised"
                 /\ UNCHANGED retry_total
            ELSE /\ session_pc' = "sending"
                 /\ retry_total' = increment(retry_total)
    /\ UNCHANGED <<findVars, writerVars, updateVars, jsonVars, pagingVars>>

NextRetry == SendRequest

SpecRetry == InitRetry /\ [][NextRetry]_vars

(* C20: a GET through the session is sent again only after an answer whose  *)
(* status is 408, 500, 502, 503 or 504; it is sent at most 3 times; and     *)
(* when the third send is answered with one of those statuses the request   *)
(* ends in an error.                                                        *)
C20_BoundedRetry ==
    /\ \A k \in DOMAIN sends : k < Len(sends) => sends[k].status \in RETRY_STATUSES
    /\ Len(sends) <= 3
    /\ (Len(sends) >= 3 /\ sends[3].status \in RETRY_STATUSES) => session_pc = "raised"

====
